---------------------------- MODULE Spec2Model ----------------------------
(***************************************************************************)
(* Model of the generation gateway of src/services/geminiService.ts:       *)
(* withRetry, wrapWithSignal, the one-shot message-protocol operation of   *)
(* fetchOpenAICompatible, generateOutline on both provider paths, and the  *)
(* streaming generator streamOpenAICompatible as used by                   *)
(* generateChapterStream (Spec); the read loop of streamOpenAICompatible   *)
(* chunk by chunk (DecoderSpec); cleanAndParseJson (RepairSpec); the       *)
(* exported operations and their configuration check (GatewaySpec); two    *)
(* concurrent requests (PairSpec); the generator objects of the streaming  *)
(* operations (GeneratorSpec); the one-shot handling of generateOutline    *)
(* (OutlineSpec); the generation handlers of src/App.tsx (AppSpec).        *)
(*                                                                         *)
(* An error message is modelled by the set of the marker substrings it     *)
(* contains: String.includes(marker) is membership in that set.            *)
(***************************************************************************)
EXTENDS Integers, Sequences, FiniteSets, TLC

VARIABLES
    path,       \* "sdk": wrapWithSignal(withRetry(ai.models.generateContent)), "fetch": fetchOpenAICompatible with signal, "stream": streamOpenAICompatible
    pc,         \* position of the retry loop / generator
    i,          \* loop index of the for loop
    calls,      \* number of times the operation has been invoked
    inflight,   \* number of backend calls awaiting their response
    timer,      \* TRUE while a setTimeout of wait(delay) is pending
    delays,     \* the delays handed to wait(), in order
    log,        \* the outcome of every settled attempt, in order
    aborted,    \* signal.aborted of the caller's AbortController
    inner,      \* settlement of the promise withRetry returns
    outer,      \* settlement of the promise the caller awaits
    events,     \* what has been delivered to the caller: usage callbacks, result, error
    issuedAfterAbort,  \* history: a backend call was issued while signal.aborted
    abortedLive,       \* history: the signal was triggered while the request was started and not terminal
    stream,     \* the lines of the response body not yet read (streaming)
    yielded,    \* the tokens the generator has yielded
    yieldedAtAbort, \* history: Len(yielded) when the signal was triggered, -1 before
    abortPc,    \* history: pc when the signal was triggered, "none" before
    sse,        \* the whole response body of the stream, as characters
    unread,     \* the characters of the body reader.read() has not returned yet
    buffer,     \* let buffer of the read loop of streamOpenAICompatible
    text,       \* the argument of cleanAndParseJson
    parsed,     \* what cleanAndParseJson(text) returned or threw, kind "none" before the call
    op,         \* the exported operation the caller invokes
    settings,   \* the NovelSettings handed to it: provider, baseUrl, apiKey, modelName
    gw,         \* the invocation: position, network calls made, what the caller got
    reqs,       \* two concurrent withRetry loops, each with its own locals
    gens,       \* the generator objects returned by calls of generateChapterStream
    outlineIn,  \* generateOutline: the settings and the parsed backend output
    outlineOut, \* generateOutline: what it returns, kind "none" before
    abortControllerRef, \* App: abortControllerRef.current, 0 for null
    controllers,        \* App: signal.aborted of every AbortController created
    runs,               \* App: the generations started, in order
    chapters,           \* App: isGenerating and isDone of every chapter
    currentChapterId,   \* App: state.currentChapterId, 0 for null
    appStatus           \* App: state.status

vars == <<path, pc, i, calls, inflight, timer, delays, log, aborted, inner, outer,
          events, issuedAfterAbort, abortedLive, stream, yielded, yieldedAtAbort,
          abortPc, sse, unread, buffer, text, parsed, op, settings, gw, reqs, gens,
          outlineIn, outlineOut, abortControllerRef, controllers, runs, chapters,
          currentChapterId, appStatus>>

\* the variables of the chunk decoder and of cleanAndParseJson
decoderVars == <<sse, unread, buffer>>
repairVars == <<text, parsed>>
\* the variables of the exported operations, of the pair of concurrent
\* requests, of the generator objects, of the one-shot outline and of App
gatewayVars == <<op, settings, gw>>
pairVars == <<reqs>>
generatorVars == <<gens>>
outlineVars == <<outlineIn, outlineOut>>
appVars == <<abortControllerRef, controllers, runs, chapters, currentChapterId, appStatus>>
restVars == <<gatewayVars, pairVars, generatorVars, outlineVars, appVars>>

---------------------------------------------------------------------------
(* Program constants *)

\* withRetry(operation, retries = 3, baseDelay = 2000)
Retries == 3
BaseDelay == 2000
\* for(let i=0; i<3; i++) of streamOpenAICompatible
StreamRetries == 3

(* Bounds of the model *)
\* the longest response body of a stream, in lines
MaxLines == 3

---------------------------------------------------------------------------
(* Error messages as sets of markers *)

RateLimitMarkers == {"429", "quota", "RESOURCE_EXHAUSTED"}
ServerMarkers == {"500", "503", "Overloaded"}
NetworkMarkers == {"Failed to fetch", "NetworkError", "fetch failed"}
SafetyMarkers == {"data_inspection_failed", "inappropriate content"}
AbortMarker == "Aborted"
\* "Content blocked by Alibaba safety filters. Please adjust settings to be less explicit."
ContentBlockedMsg == {"Content blocked by"}

NoErr == [name |-> "none", msg |-> {}, attempt |-> 0]
MkErr(name, msg, attempt) == [name |-> name, msg |-> msg, attempt |-> attempt]

\* new DOMException('Aborted', 'AbortError')
WrapAbortError == MkErr("AbortError", {AbortMarker}, 0)
\* the rejection of fetch() under an aborted signal: name AbortError, a
\* message of the platform ("signal is aborted without reason")
FetchAbortError(attempt) == MkErr("AbortError", {}, attempt)

IsRateLimit(msg) == msg \cap RateLimitMarkers # {}
IsServer(msg) == msg \cap ServerMarkers # {}
IsNetwork(msg) == msg \cap NetworkMarkers # {}
IsAborted(err) == AbortMarker \in err.msg \/ err.name = "AbortError"
IsSafetyBlock(msg) == msg \cap SafetyMarkers # {}

\* if (isAborted || isSafetyBlock) throw error;
IsTerminal(err) == IsAborted(err) \/ IsSafetyBlock(err.msg)

IsRetryable(msg) == IsRateLimit(msg) \/ IsServer(msg) \/ IsNetwork(msg)

\* the retry decision of withRetry's catch block at loop index idx
ShouldRetry_RetryableFirst(err, idx) == IsRetryable(err.msg) /\ idx < Retries - 1
ShouldRetry_OffByOne(err, idx) ==
    /\ ~IsTerminal(err)
    /\ IsRetryable(err.msg)
    /\ idx < Retries - 2
ShouldRetry_Always(err, idx) == ~IsTerminal(err) /\ idx < Retries - 1
ShouldRetry(err, idx) ==
    /\ ~IsTerminal(err)
    /\ IsRetryable(err.msg)
    /\ idx < Retries - 1

\* const delay = baseDelay * Math.pow(2, i)
Delay_Constant(idx) == BaseDelay
Delay(idx) == BaseDelay * 2^idx

---------------------------------------------------------------------------
(* Backend responses and what the operation makes of them *)

Contents == {"", "json", "bad"}
Statuses == {400, 401, 429, 500, 502, 503}

\* A response body: the markers its text holds (txt) and those of the
\* message extracted from it, json.error?.message || json.message || txt
Bodies ==
    {[txt |-> {}, msg |-> {}]}
    \cup {[txt |-> {m}, msg |-> {m}] :
            m \in {"quota", "500", "data_inspection_failed", "inappropriate content", AbortMarker}}
    \cup {[txt |-> {m}, msg |-> {}] : m \in {"quota", "data_inspection_failed"}}

Resp(kind, status, txt, msg, content, usage) ==
    [kind |-> kind, status |-> status, txt |-> txt, msg |-> msg,
     content |-> content, usage |-> usage]

OkResponses == {Resp("ok", 200, {}, {}, c, u) : c \in Contents, u \in BOOLEAN}
HttpResponses == {Resp("http", s, b.txt, b.msg, "", FALSE) : s \in Statuses, b \in Bodies}
\* fetch() rejecting with TypeError: Failed to fetch
NetErrResponse == Resp("neterr", 0, {}, {"Failed to fetch"}, "", FALSE)
\* the rejection of fetch() whose signal is or becomes aborted
AbortResponse == Resp("abort", 0, {}, {}, "", FALSE)

\* messages of the errors the SDK call may reject with
SdkMsgs ==
    {{}}
    \cup {{m} : m \in RateLimitMarkers \cup ServerMarkers \cup NetworkMarkers
                       \cup SafetyMarkers \cup {AbortMarker}}
    \cup {{AbortMarker, "429"}, {"data_inspection_failed", "503"},
          {"inappropriate content", "quota"}}
SdkErrResponses == {Resp("sdkerr", 0, m, m, "", FALSE) : m \in SdkMsgs}

\* a 200 response whose body response.json() cannot parse (SyntaxError)
BadJsonResponse == Resp("badjson", 200, {}, {}, "", FALSE)

FetchResponses == OkResponses \cup HttpResponses \cup {NetErrResponse, BadJsonResponse}
SdkResponses == OkResponses \cup SdkErrResponses
ResponsesOf(p) == IF p = "sdk" THEN SdkResponses ELSE FetchResponses

\* `${response.status}` inside the message: the markers a status prints as
StatusMarkers(status) ==
    {m \in {"429", "500", "503"} :
        \/ m = "429" /\ status = 429
        \/ m = "500" /\ status = 500
        \/ m = "503" /\ status = 503}

Settled(kind, err, content, usage) ==
    [kind |-> kind, err |-> err, content |-> content, usage |-> usage]
Unsettled == Settled("none", NoErr, "", FALSE)

\* throw new Error(`API Error: ${response.status} ${msg}`)
ApiErrorMsg_NoStatus(resp) == resp.msg
ApiErrorMsg(resp) == StatusMarkers(resp.status) \cup resp.msg

\* The operation handed to withRetry, applied to the response of attempt n:
\* the closure of fetchOpenAICompatible, or ai.models.generateContent
Operation(resp, n) ==
    CASE resp.kind = "ok" -> Settled("ok", NoErr, resp.content, resp.usage)
      [] resp.kind = "abort" -> Settled("err", FetchAbortError(n), "", FALSE)
      [] resp.kind = "neterr" -> Settled("err", MkErr("TypeError", resp.msg, n), "", FALSE)
      [] resp.kind = "sdkerr" -> Settled("err", MkErr("Error", resp.msg, n), "", FALSE)
      [] resp.kind = "badjson" -> Settled("err", MkErr("SyntaxError", resp.msg, n), "", FALSE)
      [] resp.kind = "http" ->
            IF "data_inspection_failed" \in resp.txt
            THEN Settled("err", MkErr("Error", ContentBlockedMsg, n), "", FALSE)
            ELSE Settled("err", MkErr("Error", ApiErrorMsg(resp), n), "", FALSE)

---------------------------------------------------------------------------
(* What the caller of generateOutline receives *)

Ev(type, content, err) == [type |-> type, content |-> content, err |-> err]
UsageEv == Ev("usage", "", NoErr)

\* throw new Error(`JSON Parse Error: ...`) of cleanAndParseJson
ParseError == MkErr("Error", {"JSON Parse Error"}, 0)

\* the settlement of generateOutline once the awaited promise settled with o:
\* cleanAndParseJson(response.text || "[]") / cleanAndParseJson(text)
Facade(o) ==
    IF o.kind = "ok"
    THEN IF o.content = "bad"
         THEN Settled("err", ParseError, "", FALSE)
         ELSE Settled("ok", NoErr, IF o.content = "" THEN "[]" ELSE o.content, FALSE)
    ELSE Settled("err", o.err, "", FALSE)

\* the events the caller sees when the awaited promise settles with o
Delivery_UsageAlways(o) ==
    <<UsageEv>>
    \o <<IF Facade(o).kind = "ok"
         THEN Ev("result", Facade(o).content, NoErr)
         ELSE Ev("error", "", Facade(o).err)>>
Delivery(o) ==
    (IF o.kind = "ok" /\ o.usage THEN <<UsageEv>> ELSE <<>>)
    \o <<IF Facade(o).kind = "ok"
         THEN Ev("result", Facade(o).content, NoErr)
         ELSE Ev("error", "", Facade(o).err)>>

\* abortHandler of wrapWithSignal: reject(new DOMException('Aborted', 'AbortError'))
OnAbort_NoListener(o) == o
OnAbort(o) == IF o.kind = "none" THEN Settled("err", WrapAbortError, "", FALSE) ELSE o

\* await wait(delay): the loop goes on once the timer has fired
BackoffElapsed_NoAwait == TRUE
BackoffElapsed == ~timer

---------------------------------------------------------------------------
(* The one-shot request: generateOutline on either provider path *)

OneShot == path \in {"sdk", "fetch"}

\* The promise withRetry returns settles with o: on the "sdk" path
\* wrapWithSignal passes it on unless the abort handler has rejected
\* already; on the "fetch" path the caller awaits it directly.
InnerSettles(o) ==
    /\ inner' = o
    /\ pc' = "done"
    /\ IF outer.kind = "none"
       THEN /\ outer' = Facade(o)
            /\ events' = events \o Delivery(o)
       ELSE UNCHANGED <<outer, events>>

\* return await operation() of loop index idx. fetch() under an aborted
\* signal rejects without a request; the SDK call is given no signal.
Invoke(idx) ==
    /\ i' = idx
    /\ calls' = calls + 1
    /\ IF path = "fetch" /\ aborted
       THEN /\ log' = Append(log, AbortResponse)
            /\ InnerSettles(Operation(AbortResponse, calls + 1))
            /\ UNCHANGED <<inflight, issuedAfterAbort>>
       ELSE /\ inflight' = inflight + 1
            /\ issuedAfterAbort' = (issuedAfterAbort \/ aborted)
            /\ pc' = "inflight"
            /\ UNCHANGED <<log, inner>>
            \* wrapWithSignal: if (signal.aborted) throw, evaluated after
            \* its argument withRetry(...) has invoked the operation
            /\ IF path = "sdk" /\ aborted /\ pc = "idle"
               THEN /\ outer' = Settled("err", WrapAbortError, "", FALSE)
                    /\ events' = events \o Delivery(outer')
               ELSE UNCHANGED <<outer, events>>

\* The caller calls generateOutline(settings, signal, onUsage)
Start ==
    /\ OneShot
    /\ UNCHANGED <<decoderVars, repairVars, restVars>>
    /\ pc = "idle"
    /\ Invoke(0)
    /\ UNCHANGED <<path, timer, delays, aborted, abortedLive, stream, yielded, yieldedAtAbort, abortPc>>

\* The backend answers the call in flight; withRetry returns the result,
\* rethrows the error, or starts the backoff sleep
Settle ==
    /\ OneShot
    /\ UNCHANGED <<decoderVars, repairVars, restVars>>
    /\ pc = "inflight"
    /\ \E resp \in ResponsesOf(path) :
         LET o == Operation(resp, calls) IN
         /\ inflight' = inflight - 1
         /\ log' = Append(log, resp)
         /\ IF o.kind = "err" /\ ShouldRetry(o.err, i)
            THEN /\ delays' = Append(delays, Delay(i))
                 /\ timer' = TRUE
                 /\ pc' = "sleep"
                 /\ UNCHANGED <<inner, outer, events>>
            ELSE /\ InnerSettles(o)
                 /\ UNCHANGED <<delays, timer>>
    /\ UNCHANGED <<path, i, calls, aborted, issuedAfterAbort, abortedLive,
                   stream, yielded, yieldedAtAbort, abortPc>>

\* setTimeout(resolve, ms) of wait fires
TimerFires ==
    /\ timer
    /\ UNCHANGED <<decoderVars, repairVars, restVars>>
    /\ timer' = FALSE
    /\ UNCHANGED <<path, pc, i, calls, inflight, delays, log, aborted, inner, outer,
                   events, issuedAfterAbort, abortedLive, stream, yielded, yieldedAtAbort, abortPc>>

\* continue: the next iteration of withRetry's loop invokes the operation
Resume ==
    /\ OneShot
    /\ UNCHANGED <<decoderVars, repairVars, restVars>>
    /\ pc = "sleep"
    /\ BackoffElapsed
    /\ Invoke(i + 1)
    /\ UNCHANGED <<path, timer, delays, aborted, abortedLive, stream, yielded, yieldedAtAbort, abortPc>>

\* controller.abort() on the one-shot request
AbortOneShot ==
    /\ OneShot
    /\ UNCHANGED <<decoderVars, repairVars, restVars>>
    /\ ~aborted
    /\ aborted' = TRUE
    /\ abortedLive' = (pc # "idle" /\ outer.kind = "none")
    /\ abortPc' = pc
    /\ IF path = "fetch" /\ pc = "inflight"
       THEN \* the pending fetch rejects with AbortError
            /\ inflight' = inflight - 1
            /\ log' = Append(log, AbortResponse)
            /\ InnerSettles(Operation(AbortResponse, calls))
       ELSE /\ UNCHANGED <<inflight, log, inner, pc>>
            /\ IF path = "sdk" /\ pc # "idle"
               THEN \* the abort listener wrapWithSignal registered runs
                    /\ outer' = OnAbort(outer)
                    /\ events' = IF outer'.kind # outer.kind
                                 THEN events \o Delivery(outer')
                                 ELSE events
               ELSE UNCHANGED <<outer, events>>
    /\ UNCHANGED <<path, i, calls, timer, delays, issuedAfterAbort,
                   stream, yielded, yieldedAtAbort>>

---------------------------------------------------------------------------
(* The streaming request: generateChapterStream on the message-protocol    *)
(* path, that is streamOpenAICompatible. Neither takes a signal.           *)

Streaming == path = "stream"

\* the lines of a response body: data lines with a delta.content, a data
\* line with a usage object, the data: [DONE] line, and a line that is no
\* data line or does not parse
Lines == {"tokA", "tokB", "usage", "done", "junk"}
IsToken(line) == line \in {"tokA", "tokB"}

RECURSIVE SeqsUpTo(_, _)
SeqsUpTo(S, n) ==
    IF n = 0 THEN {<<>>}
    ELSE LET shorter == SeqsUpTo(S, n - 1) IN
         shorter \cup {Append(q, x) : q \in {t \in shorter : Len(t) = n - 1}, x \in S}

StreamBodies == SeqsUpTo(Lines, MaxLines)

\* the error thrown inside the try block of the connection loop for a
\* response that is not ok
StreamHttpError(resp, n) ==
    IF resp.status = 400 /\ "data_inspection_failed" \in resp.txt
    THEN MkErr("Error", ContentBlockedMsg, n)
    ELSE MkErr("Error", StatusMarkers(resp.status) \cup resp.msg, n)

\* catch (e) of the connection loop: wait and try again, or throw e
StreamRetry(err, idx) ==
    /\ "Content blocked by" \notin err.msg
    /\ idx # StreamRetries - 1
    /\ IsNetwork(err.msg)

\* 2000 * Math.pow(2, i)
StreamDelay(idx) == BaseDelay * 2^idx

\* response = await fetch(url, {method, headers, body}): no signal
StreamFetch(idx) ==
    /\ i' = idx
    /\ calls' = calls + 1
    /\ inflight' = inflight + 1
    /\ issuedAfterAbort' = (issuedAfterAbort \/ aborted)
    /\ pc' = "connecting"

\* The consumer pulls the first token: the generator body starts
StreamStart ==
    /\ Streaming
    /\ UNCHANGED <<decoderVars, repairVars, restVars>>
    /\ pc = "idle"
    /\ StreamFetch(0)
    /\ UNCHANGED <<path, timer, delays, log, aborted, inner, outer, events,
                   abortedLive, stream, yielded, yieldedAtAbort, abortPc>>

\* The backend answers the connection attempt
StreamConnect ==
    /\ Streaming
    /\ UNCHANGED <<decoderVars, repairVars, restVars>>
    /\ pc = "connecting"
    /\ inflight' = inflight - 1
    /\ \E resp \in HttpResponses \cup {NetErrResponse, Resp("ok", 200, {}, {}, "", FALSE)} :
         /\ log' = Append(log, resp)
         /\ IF resp.kind = "ok"
            THEN /\ \E body \in StreamBodies : stream' = body
                 /\ pc' = "reading"
                 /\ UNCHANGED <<delays, timer, outer, events>>
            ELSE LET err == IF resp.kind = "neterr"
                            THEN MkErr("TypeError", resp.msg, calls)
                            ELSE StreamHttpError(resp, calls) IN
                 IF StreamRetry(err, i)
                 THEN /\ delays' = Append(delays, StreamDelay(i))
                      /\ timer' = TRUE
                      /\ pc' = "ssleep"
                      /\ UNCHANGED <<stream, outer, events>>
                 ELSE /\ outer' = Settled("err", err, "", FALSE)
                      /\ events' = Append(events, Ev("error", "", err))
                      /\ pc' = "done"
                      /\ UNCHANGED <<stream, delays, timer>>
    /\ UNCHANGED <<path, i, calls, aborted, inner, issuedAfterAbort, abortedLive,
                   yielded, yieldedAtAbort, abortPc>>

\* the connection loop goes on after await wait(...)
StreamResume ==
    /\ Streaming
    /\ UNCHANGED <<decoderVars, repairVars, restVars>>
    /\ pc = "ssleep"
    /\ BackoffElapsed
    /\ StreamFetch(i + 1)
    /\ UNCHANGED <<path, timer, delays, log, aborted, inner, outer, events,
                   abortedLive, stream, yielded, yieldedAtAbort, abortPc>>

\* The read loop takes the next line of the body
StreamRead ==
    /\ Streaming
    /\ UNCHANGED <<decoderVars, repairVars, restVars>>
    /\ pc = "reading"
    /\ stream # <<>>
    /\ stream' = Tail(stream)
    /\ yielded' = IF IsToken(Head(stream)) THEN Append(yielded, Head(stream)) ELSE yielded
    /\ events' = IF Head(stream) = "usage" THEN Append(events, UsageEv) ELSE events
    /\ UNCHANGED <<path, pc, i, calls, inflight, timer, delays, log, aborted, inner, outer,
                   issuedAfterAbort, abortedLive, yieldedAtAbort, abortPc>>

\* reader.read() reports done: the generator returns
StreamEnd ==
    /\ Streaming
    /\ UNCHANGED <<decoderVars, repairVars, restVars>>
    /\ pc = "reading"
    /\ stream = <<>>
    /\ pc' = "done"
    /\ outer' = Settled("ok", NoErr, "", FALSE)
    /\ UNCHANGED <<path, i, calls, inflight, timer, delays, log, aborted, inner, events,
                   issuedAfterAbort, abortedLive, stream, yielded, yieldedAtAbort, abortPc>>

\* controller.abort() while the caller consumes the stream: the generator
\* holds no signal, so only the controller changes
AbortStream ==
    /\ Streaming
    /\ UNCHANGED <<decoderVars, repairVars, restVars>>
    /\ ~aborted
    /\ aborted' = TRUE
    /\ abortedLive' = (pc \notin {"idle", "done"})
    /\ yieldedAtAbort' = Len(yielded)
    /\ abortPc' = pc
    /\ UNCHANGED <<path, pc, i, calls, inflight, timer, delays, log, inner, outer, events,
                   issuedAfterAbort, stream, yielded>>

---------------------------------------------------------------------------
(* The read loop of streamOpenAICompatible at the level of chunks. The     *)
(* response body is a sequence of characters; "data:" stands for these     *)
(* five characters, "{", "a", "}" for a JSON object whose                  *)
(* choices[0].delta.content is "a", "u" for a usage member, "[DONE]" for   *)
(* these six characters.                                                   *)

NewLine == "\n"
Space == " "

\* 'data: '
DataPrefix == <<"data:", Space>>

\* the lines a response body is made of, without their line end
DataLine(payload) == DataPrefix \o payload
RecordLine(member) == DataLine(<<"{", member, "}">>)
SentinelLine == DataLine(<<"[DONE]">>)
\* a data line whose JSON payload is cut short
TruncatedLine == DataLine(<<"{", "a">>)
\* the blank line between two events
BlankLine == <<>>
\* data:{...} without the space: a line that does not start with 'data: '
NoSpaceLine == <<"data:", "{", "a", "}">>

SseLines ==
    {RecordLine("a"), RecordLine("b"), RecordLine("u"), SentinelLine,
     TruncatedLine, BlankLine, NoSpaceLine}

\* the longest response body, in complete lines
MaxRecords == 2

RECURSIVE Flatten(_)
Flatten(ss) == IF ss = <<>> THEN <<>> ELSE Head(ss) \o Flatten(Tail(ss))

\* the bodies: up to MaxRecords lines each ended by a line feed, then
\* possibly a last line that no line feed follows
SseBodies ==
    {Flatten([k \in 1..Len(ls) |-> Append(ls[k], NewLine)]) \o last :
        ls \in SeqsUpTo(SseLines, MaxRecords), last \in SseLines}

\* str.split('\n')
RECURSIVE Split(_)
Split(str) ==
    IF \A k \in 1..Len(str) : str[k] # NewLine
    THEN <<str>>
    ELSE LET k == CHOOSE n \in 1..Len(str) :
                    str[n] = NewLine /\ \A m \in 1..(n - 1) : str[m] # NewLine
         IN <<SubSeq(str, 1, k - 1)>> \o Split(SubSeq(str, k + 1, Len(str)))

\* str.trim()
RECURSIVE Trim(_)
Trim(str) ==
    IF str = <<>> THEN str
    ELSE IF Head(str) = Space THEN Trim(Tail(str))
    ELSE IF str[Len(str)] = Space THEN Trim(SubSeq(str, 1, Len(str) - 1))
    ELSE str

\* str.startsWith(prefix)
StartsWith(str, prefix) ==
    Len(str) >= Len(prefix) /\ SubSeq(str, 1, Len(prefix)) = prefix

\* JSON.parse(dataStr) of a record: the member list between the braces,
\* white space between tokens dropped; ok is FALSE for a SyntaxError
RecordMembers == {<<>>, <<"a">>, <<"b">>, <<"u">>, <<"u", "a">>, <<"u", "b">>}
ParseRecord_Lenient(dataStr) ==
    LET t == SelectSeq(dataStr, LAMBDA c : c \notin {Space, "{", "}"}) IN
    [ok |-> t \in RecordMembers, members |-> t]
ParseRecord(dataStr) ==
    LET t == SelectSeq(dataStr, LAMBDA c : c # Space) IN
    IF /\ Len(t) >= 2
       /\ t[1] = "{"
       /\ t[Len(t)] = "}"
       /\ SubSeq(t, 2, Len(t) - 1) \in RecordMembers
    THEN [ok |-> TRUE, members |-> SubSeq(t, 2, Len(t) - 1)]
    ELSE [ok |-> FALSE, members |-> <<>>]

\* the body of for (const line of lines): what one line delivers, in
\* order: "usage" for a call of onUsage, a token for a yield
ProcessLine(line) ==
    LET trimmed == Trim(line) IN
    IF ~StartsWith(trimmed, DataPrefix) THEN <<>>
    ELSE LET dataStr == SubSeq(trimmed, Len(DataPrefix) + 1, Len(trimmed)) IN
         IF dataStr = <<"[DONE]">> THEN <<>>
         ELSE LET json == ParseRecord(dataStr) IN
              IF ~json.ok THEN <<>>
              ELSE SelectSeq(json.members, LAMBDA m : m = "u")
                   \o SelectSeq(json.members, LAMBDA m : m \in {"a", "b"})

\* buffer = lines.pop() || '': what follows the last line feed is kept
\* for the next chunk
Leftover_Dropped(lines) == <<>>
Leftover(lines) == lines[Len(lines)]

\* one turn of while (true): reader.read() returns the next chunk, the
\* lines completed so far are processed, the rest stays in buffer
DecoderRead ==
    /\ Streaming
    /\ pc = "reading"
    /\ unread # <<>>
    /\ \E n \in 1..Len(unread) :
         LET lines == Split(buffer \o SubSeq(unread, 1, n))
             delivered == Flatten([k \in 1..(Len(lines) - 1) |-> ProcessLine(lines[k])])
         IN /\ unread' = SubSeq(unread, n + 1, Len(unread))
            /\ buffer' = Leftover(lines)
            /\ yielded' = yielded \o SelectSeq(delivered, LAMBDA e : e # "u")
            /\ events' = events \o [k \in 1..Len(SelectSeq(delivered, LAMBDA e : e = "u")) |-> UsageEv]
    /\ UNCHANGED <<path, pc, i, calls, inflight, timer, delays, log, aborted, inner, outer,
                   issuedAfterAbort, abortedLive, stream, yieldedAtAbort, abortPc,
                   sse, repairVars, restVars>>

\* reader.read() reports done: break, the generator returns
DecoderEnd ==
    /\ Streaming
    /\ pc = "reading"
    /\ unread = <<>>
    /\ pc' = "done"
    /\ outer' = Settled("ok", NoErr, "", FALSE)
    /\ UNCHANGED <<path, i, calls, inflight, timer, delays, log, aborted, inner, events,
                   issuedAfterAbort, abortedLive, stream, yielded, yieldedAtAbort, abortPc,
                   decoderVars, repairVars, restVars>>

---------------------------------------------------------------------------
(* cleanAndParseJson. A text is a sequence of characters; a word such as   *)
(* "name" or "Alice" stands for its letters, Space for any white space     *)
(* character. The value JSON.parse returns is modelled by the text of the  *)
(* value without the white space between its tokens.                       *)

Quote == "\""
Backslash == "\\"
\* three backticks, which a string of this language cannot hold
Fence == "'''"
Digits == {"0", "7"}
Literals == {"true", "false", "null"}

\* the first position at or after p that holds no white space
RECURSIVE SkipWs(_, _)
SkipWs(str, p) ==
    IF p <= Len(str) /\ str[p] = Space THEN SkipWs(str, p + 1) ELSE p

\* the position after the closing quote of the string whose content starts
\* at p, 0 when the string is not closed or holds a bad escape
RECURSIVE StringEnd(_, _)
StringEnd(str, p) ==
    IF p > Len(str) THEN 0
    ELSE IF str[p] = Quote THEN p + 1
    ELSE IF str[p] = Backslash
         THEN IF p < Len(str) /\ str[p + 1] \in {Quote, Backslash}
              THEN StringEnd(str, p + 2)
              ELSE 0
    ELSE StringEnd(str, p + 1)

RECURSIVE NumberEnd(_, _)
NumberEnd(str, p) ==
    IF p <= Len(str) /\ str[p] \in Digits THEN NumberEnd(str, p + 1) ELSE p

\* the position after the JSON value that starts at p, 0 when there is none
RECURSIVE ValueEnd(_, _)
RECURSIVE ElementsEnd(_, _)
RECURSIVE MembersEnd(_, _)
ValueEnd(str, p) ==
    IF p > Len(str) THEN 0
    ELSE CASE str[p] = Quote -> StringEnd(str, p + 1)
           [] str[p] = "0" -> p + 1
           [] str[p] \in Digits \ {"0"} -> NumberEnd(str, p)
           [] str[p] \in Literals -> p + 1
           [] str[p] = "[" ->
                LET q == SkipWs(str, p + 1) IN
                IF q <= Len(str) /\ str[q] = "]" THEN q + 1 ELSE ElementsEnd(str, q)
           [] str[p] = "{" ->
                LET q == SkipWs(str, p + 1) IN
                IF q <= Len(str) /\ str[q] = "}" THEN q + 1 ELSE MembersEnd(str, q)
           [] OTHER -> 0

\* value (, value)* ] from p on
ElementsEnd(str, p) ==
    LET e == ValueEnd(str, SkipWs(str, p)) IN
    IF e = 0 THEN 0
    ELSE LET q == SkipWs(str, e) IN
         IF q > Len(str) THEN 0
         ELSE IF str[q] = "," THEN ElementsEnd(str, q + 1)
         ELSE IF str[q] = "]" THEN q + 1
         ELSE 0

\* string : value (, string : value)* } from p on
MembersEnd(str, p) ==
    LET k == SkipWs(str, p) IN
    IF k > Len(str) \/ str[k] # Quote THEN 0
    ELSE LET e == StringEnd(str, k + 1) IN
         IF e = 0 THEN 0
         ELSE LET c == SkipWs(str, e) IN
              IF c > Len(str) \/ str[c] # ":" THEN 0
              ELSE LET v == ValueEnd(str, SkipWs(str, c + 1)) IN
                   IF v = 0 THEN 0
                   ELSE LET q == SkipWs(str, v) IN
                        IF q > Len(str) THEN 0
                        ELSE IF str[q] = "," THEN MembersEnd(str, q + 1)
                        ELSE IF str[q] = "}" THEN q + 1
                        ELSE 0

\* JSON.parse(str) does not throw
IsJson(str) ==
    LET e == ValueEnd(str, SkipWs(str, 1)) IN
    e # 0 /\ SkipWs(str, e) = Len(str) + 1

\* the value of a valid JSON text: its characters from p on without the
\* white space outside strings
RECURSIVE ValueFrom(_, _, _)
ValueFrom(str, p, inString) ==
    IF p > Len(str) THEN <<>>
    ELSE IF inString
         THEN IF str[p] = Backslash
              THEN <<str[p], str[p + 1]>> \o ValueFrom(str, p + 2, TRUE)
              ELSE <<str[p]>> \o ValueFrom(str, p + 1, str[p] # Quote)
         ELSE IF str[p] = Space
              THEN ValueFrom(str, p + 1, FALSE)
              ELSE <<str[p]>> \o ValueFrom(str, p + 1, str[p] = Quote)

JsonParse(str) == ValueFrom(str, 1, FALSE)

\* const tryParse = (str) => { try { return JSON.parse(str); } catch (e) { return null; } }
Null == <<"null">>
TryParse(str) == IF IsJson(str) THEN JsonParse(str) ELSE Null

\* if (result): null, false, 0 and "" are falsy
Truthy(value) == value \notin {Null, <<"false">>, <<"0">>, <<Quote, Quote>>}

\* str.replace(pattern, '') with the g flag, pattern a literal
RECURSIVE RemoveAll(_, _)
RemoveAll(str, pattern) ==
    IF str = <<>> THEN <<>>
    ELSE IF StartsWith(str, pattern)
         THEN RemoveAll(SubSeq(str, Len(pattern) + 1, Len(str)), pattern)
         ELSE <<Head(str)>> \o RemoveAll(Tail(str), pattern)

\* text.replace(/```json/gi, '').replace(/```/g, '').trim()
StripFences(str) == Trim(RemoveAll(RemoveAll(str, <<Fence, "json">>), <<Fence>>))

\* const keys = [...] of fixUnquoted, in the order they are applied
Keys ==
    <<"summary", "title", "description", "relationships", "name", "role",
      "content", "id", "original", "suggestion", "explanation">>

\* the first position at or after p that holds one of , } ]
RECURSIVE RunEnd(_, _)
RunEnd(str, p) ==
    IF p <= Len(str) /\ str[p] \notin {",", "}", "]"} THEN RunEnd(str, p + 1) ELSE p

\* (?![{\["\d]|true|false|null) at position p
Lookahead(str, p) ==
    p > Len(str) \/ str[p] \notin ({"{", "[", Quote} \cup Digits \cup Literals)

\* "key"\s*:\s*(?!...)([^,}\]]+) tried at position p: where the captured
\* value starts, 0 when the expression does not match there. \s* takes all
\* the white space after the colon first; when the lookahead or the
\* capture fails there, it gives one white space character back, which the
\* lookahead lets pass and the capture then starts with.
CaptureStart(str, p, key) ==
    IF p + 2 > Len(str) \/ <<str[p], str[p + 1], str[p + 2]>> # <<Quote, key, Quote>>
    THEN 0
    ELSE LET colon == SkipWs(str, p + 3) IN
         IF colon > Len(str) \/ str[colon] # ":" THEN 0
         ELSE LET w == SkipWs(str, colon + 1) IN
              IF Lookahead(str, w) /\ RunEnd(str, w) > w THEN w
              ELSE IF w > colon + 1 THEN w - 1
              ELSE 0

\* !isNaN(Number(trimmed)): digits only, the empty string included
IsNumeric(trimmed) == \A k \in 1..Len(trimmed) : trimmed[k] \in Digits

\* trimmed.replace(/"/g, '\\"')
RECURSIVE EscapeQuotes(_)
EscapeQuotes(str) ==
    IF str = <<>> THEN <<>>
    ELSE (IF Head(str) = Quote THEN <<Backslash, Quote>> ELSE <<Head(str)>>)
         \o EscapeQuotes(Tail(str))

\* the replacer function: what a match from p with the value captured
\* from v on is replaced by
Replacement(str, p, v, key) ==
    LET trimmed == Trim(SubSeq(str, v, RunEnd(str, v) - 1)) IN
    IF IsNumeric(trimmed)
    THEN SubSeq(str, p, RunEnd(str, v) - 1)
    ELSE <<Quote, key, Quote, ":", Space, Quote>> \o EscapeQuotes(trimmed) \o <<Quote>>

\* fixed.replace(regex, replacer) for one key, from position p on
RECURSIVE ReplaceKey(_, _, _)
ReplaceKey(str, p, key) ==
    IF p > Len(str) THEN <<>>
    ELSE LET v == CaptureStart(str, p, key) IN
         IF v = 0
         THEN <<str[p]>> \o ReplaceKey(str, p + 1, key)
         ELSE Replacement(str, p, v, key) \o ReplaceKey(str, RunEnd(str, v), key)

\* keys.forEach(key => { if (key === 'id') return; fixed = fixed.replace(...) })
RECURSIVE FixKeys(_, _)
FixKeys(str, keys) ==
    IF keys = <<>> THEN str
    ELSE FixKeys(IF Head(keys) = "id" THEN str ELSE ReplaceKey(str, 1, Head(keys)),
                 Tail(keys))

FixUnquoted(str) == FixKeys(str, Keys)

\* str.indexOf(c) and str.lastIndexOf(c), positions from 1, 0 for -1
IndexOf(str, c) ==
    IF \E k \in 1..Len(str) : str[k] = c
    THEN CHOOSE k \in 1..Len(str) : str[k] = c /\ \A j \in 1..(k - 1) : str[j] # c
    ELSE 0
LastIndexOf(str, c) ==
    IF \E k \in 1..Len(str) : str[k] = c
    THEN CHOOSE k \in 1..Len(str) : str[k] = c /\ \A j \in (k + 1)..Len(str) : str[j] # c
    ELSE 0

\* clean.substring(first, last + 1) when both brackets are found in this
\* order: the texts the extraction tries, raw then repaired; none otherwise
Span(clean, open, close) ==
    LET first == IndexOf(clean, open)
        last == LastIndexOf(clean, close)
    IN IF first # 0 /\ last # 0 /\ last > first
       THEN <<SubSeq(clean, first, last), FixUnquoted(SubSeq(clean, first, last))>>
       ELSE <<>>

\* the texts handed to tryParse, in the order of the code
Attempts_ObjectFirst(clean) ==
    <<clean, FixUnquoted(clean)>> \o Span(clean, "{", "}") \o Span(clean, "[", "]")
Attempts(clean) ==
    <<clean, FixUnquoted(clean)>> \o Span(clean, "[", "]") \o Span(clean, "{", "}")

\* the number of characters of a text
RECURSIVE CharLen(_)
CharLen(str) == IF str = <<>> THEN 0 ELSE Len(Head(str)) + CharLen(Tail(str))

\* text.slice(0, n): the whole words that fit and the number of characters
\* taken from the next one
RECURSIVE Slice(_, _)
Slice(str, n) ==
    IF str = <<>> \/ n = 0 THEN [words |-> <<>>, cut |-> 0]
    ELSE IF Len(Head(str)) > n THEN [words |-> <<>>, cut |-> n]
    ELSE LET rest == Slice(Tail(str), n - Len(Head(str))) IN
         [words |-> <<Head(str)>> \o rest.words, cut |-> rest.cut]

\* `Raw: ${text.slice(0, 50)}...`
RawLimit == 50

Returned(value, by) == [kind |-> "ok", value |-> value, by |-> by, raw |-> [words |-> <<>>, cut |-> 0]]
Thrown(text0) == [kind |-> "err", value |-> <<>>, by |-> 0, raw |-> Slice(text0, RawLimit)]

\* cleanAndParseJson past its first line: the first attempt whose result is
\* truthy is returned, by the number of the attempt; otherwise the error
RepairPipeline(text0) ==
    LET attempts == Attempts(StripFences(text0))
        hits == {k \in 1..Len(attempts) : Truthy(TryParse(attempts[k]))}
    IN IF hits = {}
       THEN Thrown(text0)
       ELSE LET k == CHOOSE n \in hits : \A m \in hits : n <= m IN
            Returned(TryParse(attempts[k]), k)

\* if (!text) return [];
CleanAndParseJson_NoEmptyCheck(text0) == RepairPipeline(text0)
CleanAndParseJson(text0) ==
    IF text0 = <<>> THEN Returned(<<"[", "]">>, 0) ELSE RepairPipeline(text0)

---------------------------------------------------------------------------
(* The texts cleanAndParseJson is applied to: a payload, bare or wrapped   *)
(* in a markdown fence and in prose.                                       *)

\* a JSON string holding one word
Str(word) == <<Quote, word, Quote>>
\* "key":<sep>value
Member(key, sep, val) == Str(key) \o <<":">> \o sep \o val
\* {"name":<sep>v1,<sep>"role":<sep>v2}
Character(sep, v1, v2) ==
    <<"{">> \o Member("name", sep, v1) \o <<",">> \o sep \o Member("role", sep, v2) \o <<"}">>

\* the white space a model puts after a colon and a comma: none or some
Separators == {<<>>, <<Space>>}
\* a quoted word, a bare word, a number
NameValues == {Str("Alice"), <<"Alice">>, <<"7">>}
\* a quoted word, a literal, an array, a string holding brackets, a string
\* holding a fence
RoleValues ==
    {Str("Hero"), <<"true">>, <<"[", "7", "]">>, <<Quote, "[", "7", "]", Quote>>, Str(Fence)}
Characters(sep) == {Character(sep, v1, v2) : v1 \in NameValues, v2 \in RoleValues}

\* the longest array of a payload
MaxItems == 1

RECURSIVE Join(_, _)
Join(items, sep) ==
    IF items = <<>> THEN <<>>
    ELSE IF Len(items) = 1 THEN Head(items)
    ELSE Head(items) \o <<",">> \o sep \o Join(Tail(items), sep)
ArrayOf(items, sep) == <<"[">> \o Join(items, sep) \o <<"]">>

ArraysWith(sep) == {ArrayOf(items, sep) : items \in SeqsUpTo(Characters(sep), MaxItems)}
Arrays == UNION {ArraysWith(sep) : sep \in Separators}
Objects == {<<"{", "}">>} \cup UNION {Characters(sep) : sep \in Separators}
Scalars == {<<"null">>, <<"0">>, <<"7">>, <<"true">>, Str("Hero"), <<Quote, Quote>>}
\* an array cut short: [{"name": "Alice"
CutShort == <<"[", "{">> \o Member("name", <<Space>>, Str("Alice"))
Payloads == Arrays \cup Objects \cup Scalars \cup {CutShort, <<>>}

Lead == <<"Sure! Here is the data:", Space>>
Trail == <<Space, "Hope that helps!">>
Fenced(payload) == <<Fence, "json", Space>> \o payload \o <<Space, Fence>>
Wrappings == {"bare", "fence", "plainfence", "prose", "prosefence"}
Wrap(wrapping, payload) ==
    CASE wrapping = "bare" -> payload
      [] wrapping = "fence" -> Fenced(payload)
      [] wrapping = "plainfence" -> <<Fence, Space>> \o payload \o <<Space, Fence>>
      [] wrapping = "prose" -> Lead \o payload \o Trail
      [] wrapping = "prosefence" -> Lead \o Fenced(payload) \o Trail

RepairInputs == {Wrap(w, payload) : w \in Wrappings, payload \in Payloads}

\* cleanAndParseJson(text) is called and returns or throws
Parse ==
    /\ parsed.kind = "none"
    /\ parsed' = CleanAndParseJson(text)
    /\ UNCHANGED <<path, pc, i, calls, inflight, timer, delays, log, aborted, inner, outer,
                   events, issuedAfterAbort, abortedLive, stream, yielded, yieldedAtAbort,
                   abortPc, decoderVars, text, restVars>>

---------------------------------------------------------------------------
(* The exported operations: provider dispatch, the configuration check of  *)
(* the message-protocol path, and what each makes of the settlement of the *)
(* request it awaits. The request itself (withRetry, the connection loop   *)
(* of streamOpenAICompatible) is the machine above; here it is taken at    *)
(* its end: the response of the last attempt and the number of attempts.   *)

\* operations returning the text of the answer
TextOps == {"expandText", "generateCharacterConcepts", "generateWorldSetting",
            "generatePremise", "summarizeChapter", "checkConsistency",
            "fixChapterConsistency", "autoCorrectGrammar"}
\* operations returning cleanAndParseJson of the answer
JsonOps == {"generateSingleCharacter", "generateOutline", "generateCharacters", "checkGrammar"}
\* async generators
StreamOps == {"continueWriting", "generateChapterStream"}
ExportedOps == TextOps \cup JsonOps \cup StreamOps
\* operations that take and pass on an AbortSignal
SignalOps == {"generateOutline", "generateCharacters"}

Providers == {"gemini", "alibaba", "volcano", "custom"}
MessageProviders == {"alibaba", "volcano", "custom"}
\* the fields of NovelSettings the dispatch reads; "" stands for a field
\* that is undefined or empty
SettingsSet == [provider : Providers, baseUrl : {"", "https://host/v1"},
                apiKey : {"", "sk"}, modelName : {"", "m"}]

GetBaseUrl(s) ==
    CASE s.provider = "alibaba" -> "https://dashscope.aliyuncs.com/compatible-mode/v1/chat/completions"
      [] s.provider = "volcano" -> "https://ark.cn-beijing.volces.com/api/v3/chat/completions"
      [] s.provider = "custom" -> s.baseUrl
      [] OTHER -> ""

\* settings.modelName || (settings.provider === 'alibaba' ? 'qwen-plus' : '')
ModelName(s) ==
    IF s.modelName # "" THEN s.modelName
    ELSE IF s.provider = "alibaba" THEN "qwen-plus" ELSE ""

\* !url || !apiKey || !model
ConfigMissing(s) == GetBaseUrl(s) = "" \/ s.apiKey = "" \/ ModelName(s) = ""

\* new Error("Missing config"), new Error("Missing provider configuration")
MissingConfigError == MkErr("Error", {"Missing config"}, 0)

\* the operations whose message-protocol path returns a fixed value where
\* the others throw: return ""; return "Skipped"; return [];
Swallowing == {"summarizeChapter", "checkConsistency", "checkGrammar"}
Fallback(o) ==
    CASE o = "summarizeChapter" -> ""
      [] o = "checkConsistency" -> "Skipped"
      [] o = "checkGrammar" -> "[]"

\* if (!url || !apiKey || !model) ...
OnConfigMissing(o) ==
    IF o \in Swallowing
    THEN Settled("ok", NoErr, Fallback(o), FALSE)
    ELSE Settled("err", MissingConfigError, "", FALSE)

\* which request machine the operation runs on
PathOf(o, s) ==
    IF s.provider = "gemini" THEN "sdk"
    ELSE IF o \in StreamOps THEN "stream" ELSE "fetch"

\* the settlement of the connection loop of streamOpenAICompatible whose
\* attempt n was answered resp; a body that was opened is read to its end
StreamOutcome(resp, n) ==
    CASE resp.kind = "ok" -> Settled("ok", NoErr, resp.content, FALSE)
      [] resp.kind = "neterr" -> Settled("err", MkErr("TypeError", resp.msg, n), "", FALSE)
      [] OTHER -> Settled("err", StreamHttpError(resp, n), "", FALSE)

\* the ways the awaited request can end: the settlement o of its last
\* attempt, which is attempt n
Terminals(p) ==
    IF p = "stream"
    THEN {t \in {[o |-> StreamOutcome(resp, n), n |-> n] :
                    resp \in HttpResponses \cup OkResponses \cup {NetErrResponse},
                    n \in 1..StreamRetries} :
            t.o.kind = "ok" \/ ~StreamRetry(t.o.err, t.n - 1)}
    ELSE {t \in {[o |-> Operation(resp, n), n |-> n] :
                    resp \in ResponsesOf(p), n \in 1..Retries} :
            t.o.kind = "ok" \/ ~ShouldRetry(t.o.err, t.n - 1)}

\* the caller's signal is triggered while attempt n is in flight: fetch
\* rejects, wrapWithSignal rejects
Cancellations(p) ==
    {[o |-> Settled("err", IF p = "sdk" THEN WrapAbortError ELSE FetchAbortError(n), "", FALSE),
      n |-> n] : n \in 1..Retries}

EndsOf(o, s) ==
    Terminals(PathOf(o, s)) \cup (IF o \in SignalOps THEN Cancellations(PathOf(o, s)) ELSE {})

\* what the statements after the await make of the settlement r
AfterAwait(o, r) ==
    IF o \in JsonOps THEN Facade(r) ELSE Settled(r.kind, r.err, r.content, FALSE)

\* try { return await fetchOpenAICompatible(...) } catch(e) { return ...; }
OnSettled(o, s, r) ==
    IF o \in Swallowing /\ s.provider # "gemini" /\ AfterAwait(o, r).kind = "err"
    THEN Settled("ok", NoErr, Fallback(o), FALSE)
    ELSE AfterAwait(o, r)

\* an invocation: its position, the network calls made for it, what the
\* caller got, and (history) what the statements after the await made of
\* the settlement before any catch block
Invocation(p, n, r, last) == [pc |-> p, requests |-> n, result |-> r, last |-> last]
NotInvoked == Invocation("idle", 0, Unsettled, Unsettled)

\* the body of the operation from its first statement to its first await
EnterBody ==
    IF settings.provider # "gemini" /\ ConfigMissing(settings)
    THEN gw' = Invocation("done", 0, OnConfigMissing(op), Unsettled)
    ELSE gw' = Invocation("awaiting", 1, Unsettled, Unsettled)

\* the caller calls the operation: an async function runs to its first
\* await, an async generator function returns the generator object
CallOperation ==
    /\ gw.pc = "idle"
    /\ IF op \in StreamOps
       THEN gw' = Invocation("suspended", 0, Unsettled, Unsettled)
       ELSE EnterBody
    /\ UNCHANGED <<op, settings>>
    /\ UNCHANGED <<path, pc, i, calls, inflight, timer, delays, log, aborted, inner, outer,
                   events, issuedAfterAbort, abortedLive, stream, yielded, yieldedAtAbort,
                   abortPc, decoderVars, repairVars>>
    /\ UNCHANGED <<pairVars, generatorVars, outlineVars, appVars>>

\* the consumer pulls from the generator object for the first time
FirstPull ==
    /\ gw.pc = "suspended"
    /\ EnterBody
    /\ UNCHANGED <<op, settings>>
    /\ UNCHANGED <<path, pc, i, calls, inflight, timer, delays, log, aborted, inner, outer,
                   events, issuedAfterAbort, abortedLive, stream, yielded, yieldedAtAbort,
                   abortPc, decoderVars, repairVars>>
    /\ UNCHANGED <<pairVars, generatorVars, outlineVars, appVars>>

\* the awaited request ends
RequestEnds ==
    /\ gw.pc = "awaiting"
    /\ \E t \in EndsOf(op, settings) :
         gw' = Invocation("done", t.n, OnSettled(op, settings, t.o), AfterAwait(op, t.o))
    /\ UNCHANGED <<op, settings>>
    /\ UNCHANGED <<path, pc, i, calls, inflight, timer, delays, log, aborted, inner, outer,
                   events, issuedAfterAbort, abortedLive, stream, yielded, yieldedAtAbort,
                   abortPc, decoderVars, repairVars>>
    /\ UNCHANGED <<pairVars, generatorVars, outlineVars, appVars>>

---------------------------------------------------------------------------
(* Two requests of fetchOpenAICompatible running at once, as started by    *)
(* Promise.all([generateOutline(...), generateCharacters(...)]). Each call *)
(* of withRetry has its own i and each wait() its own timer.               *)

Pair == {1, 2}
Other(r) == 3 - r

Request(p, idx, n, t, ds, o) ==
    [pc |-> p, i |-> idx, calls |-> n, timer |-> t, delays |-> ds, out |-> o]
NotRequested == Request("idle", 0, 0, FALSE, <<>>, Unsettled)

\* for (let i = 0; i < retries; i++): the i the catch block of request r reads
LoopIndex_Shared(rs, r) == rs[r].i + rs[Other(r)].i
LoopIndex(rs, r) == rs[r].i

\* withRetry is called: the first iteration invokes the operation
PairStartOf(r) ==
    /\ reqs[r].pc = "idle"
    /\ reqs' = [reqs EXCEPT ![r] = Request("inflight", 0, 1, FALSE, <<>>, Unsettled)]

\* the backend answers the call of request r
PairSettleOf(r) ==
    /\ reqs[r].pc = "inflight"
    /\ \E resp \in FetchResponses :
         LET rq == reqs[r]
             o == Operation(resp, rq.calls) IN
         IF o.kind = "err" /\ ShouldRetry(o.err, LoopIndex(reqs, r))
         THEN reqs' = [reqs EXCEPT ![r] =
                         Request("sleep", rq.i, rq.calls, TRUE,
                                 Append(rq.delays, Delay(LoopIndex(reqs, r))), Unsettled)]
         ELSE reqs' = [reqs EXCEPT ![r] =
                         Request("done", rq.i, rq.calls, FALSE, rq.delays, o)]

\* the timer of request r's wait(delay) fires
PairTimerFiresOf(r) ==
    /\ reqs[r].timer
    /\ reqs' = [reqs EXCEPT ![r].timer = FALSE]

\* continue: the next iteration of request r's loop
PairResumeOf(r) ==
    /\ reqs[r].pc = "sleep"
    /\ ~reqs[r].timer
    /\ reqs' = [reqs EXCEPT ![r].pc = "inflight", ![r].i = @ + 1, ![r].calls = @ + 1]

\* what a step of either request leaves alone
PairFrame ==
    /\ UNCHANGED <<path, pc, i, calls, inflight, timer, delays, log, aborted, inner, outer,
                   events, issuedAfterAbort, abortedLive, stream, yielded, yieldedAtAbort,
                   abortPc, decoderVars, repairVars>>
    /\ UNCHANGED <<gatewayVars, generatorVars, outlineVars, appVars>>

PairStart == (\E r \in Pair : PairStartOf(r)) /\ PairFrame
PairSettle == (\E r \in Pair : PairSettleOf(r)) /\ PairFrame
PairTimerFires == (\E r \in Pair : PairTimerFiresOf(r)) /\ PairFrame
PairResume == (\E r \in Pair : PairResumeOf(r)) /\ PairFrame

---------------------------------------------------------------------------
(* The application (src/App.tsx): abortControllerRef and the handlers that *)
(* start and stop generations. A controller is its index in controllers;   *)
(* a chapter is its index in chapters, which is also its id.               *)

\* the number of chapters of a generated outline
NumChapters == 2
\* the number of AbortControllers created in one run of the model
MaxControllers == 3

Chapter(generating, done) == [isGenerating |-> generating, isDone |-> done]
Run(kind, controller, chapterId) ==
    [kind |-> kind, controller |-> controller, chapter |-> chapterId, pc |-> "running"]

\* if (abortControllerRef.current) { abortControllerRef.current.abort(); }
AbortCurrent(cs) ==
    IF abortControllerRef # 0 THEN [cs EXCEPT ![abortControllerRef] = TRUE] ELSE cs

\* finally { abortControllerRef.current = null; }
Finally(ref, own) == 0

AppFrame ==
    /\ UNCHANGED <<path, pc, i, calls, inflight, timer, delays, log, aborted, inner, outer,
                   events, issuedAfterAbort, abortedLive, stream, yielded, yieldedAtAbort,
                   abortPc, decoderVars, repairVars>>
    /\ UNCHANGED <<gatewayVars, pairVars, generatorVars, outlineVars>>

\* generateOutlineAndCharacters up to its await
GenerateOutlineAndCharacters ==
    /\ Len(controllers) < MaxControllers
    /\ controllers' = Append(AbortCurrent(controllers), FALSE)
    /\ abortControllerRef' = Len(controllers) + 1
    /\ appStatus' = "generating_outline"
    /\ runs' = Append(runs, Run("outline", Len(controllers) + 1, 0))
    /\ UNCHANGED <<chapters, currentChapterId>>
    /\ AppFrame

\* Promise.all of generateOutlineAndCharacters settles: the rest of the try
\* block or the catch block, then the finally block. Both operations hold
\* the signal, so under a triggered signal the promise rejects.
OutlineSettles ==
    /\ \E k \in DOMAIN runs :
         /\ runs[k].kind = "outline"
         /\ runs[k].pc = "running"
         /\ \E ok \in BOOLEAN :
              /\ ok => ~controllers[runs[k].controller]
              /\ IF ok
                 THEN /\ chapters' = [c \in 1..NumChapters |-> Chapter(FALSE, FALSE)]
                      /\ appStatus' = "ready"
                      /\ currentChapterId' = 1
                 ELSE /\ appStatus' = "idle"
                      /\ UNCHANGED <<chapters, currentChapterId>>
         /\ runs' = [runs EXCEPT ![k].pc = "settled"]
         /\ abortControllerRef' = Finally(abortControllerRef, runs[k].controller)
    /\ UNCHANGED controllers
    /\ AppFrame

HandleStopGeneration ==
    /\ controllers' = AbortCurrent(controllers)
    /\ abortControllerRef' = 0
    /\ appStatus' = IF appStatus = "generating_outline" THEN "idle" ELSE appStatus
    /\ chapters' = [c \in DOMAIN chapters |-> [chapters[c] EXCEPT !.isGenerating = FALSE]]
    /\ UNCHANGED <<runs, currentChapterId>>
    /\ AppFrame

SelectChapter ==
    /\ \E id \in DOMAIN chapters : currentChapterId' = id
    /\ UNCHANGED <<abortControllerRef, controllers, runs, chapters, appStatus>>
    /\ AppFrame

\* generateChapterContent(force) up to its first await; confirmed is the
\* answer to window.confirm
GenerateChapterContentOf(force, confirmed) ==
    IF currentChapterId = 0
    THEN UNCHANGED appVars
    ELSE /\ Len(controllers) < MaxControllers
         /\ controllers' = Append(AbortCurrent(controllers), FALSE)
         /\ abortControllerRef' = Len(controllers) + 1
         /\ IF \/ currentChapterId \notin DOMAIN chapters
               \/ ~force /\ (chapters[currentChapterId].isDone
                             \/ chapters[currentChapterId].isGenerating)
               \/ force /\ ~confirmed
            THEN UNCHANGED <<runs, chapters>>
            ELSE /\ chapters' = [chapters EXCEPT ![currentChapterId] = Chapter(TRUE, FALSE)]
                 /\ runs' = Append(runs, Run("chapter", Len(controllers) + 1, currentChapterId))
         /\ UNCHANGED <<currentChapterId, appStatus>>

GenerateChapterContent ==
    /\ \E force, confirmed \in BOOLEAN : GenerateChapterContentOf(force, confirmed)
    /\ AppFrame

\* the streams of a chapter generation end or fail: the rest of the try
\* block or the catch block, then the finally block. The generators are
\* given no signal, so either happens whatever the controller's state.
ChapterSettles ==
    /\ \E k \in DOMAIN runs :
         /\ runs[k].kind = "chapter"
         /\ runs[k].pc = "running"
         /\ \E ok \in BOOLEAN :
              chapters' = IF runs[k].chapter \in DOMAIN chapters
                          THEN [chapters EXCEPT ![runs[k].chapter] =
                                  IF ok THEN Chapter(FALSE, TRUE)
                                  ELSE [@ EXCEPT !.isGenerating = FALSE]]
                          ELSE chapters
         /\ runs' = [runs EXCEPT ![k].pc = "settled"]
         /\ abortControllerRef' = Finally(abortControllerRef, runs[k].controller)
    /\ UNCHANGED <<controllers, currentChapterId, appStatus>>
    /\ AppFrame

---------------------------------------------------------------------------
(* The generator objects of generateChapterStream / continueWriting on the *)
(* message-protocol path: every call makes a new one, whose body runs only *)
(* while the consumer is pulling from it.                                  *)

\* the number of calls of the generator function in one run of the model
MaxGenerators == 2

\* what a connection attempt is answered with, and the bodies of a stream
GenResponses == {Resp("ok", 200, {}, {}, "", FALSE), NetErrResponse,
                 Resp("http", 401, {}, {}, "", FALSE)}
GenBodies == {<<>>, <<"tokA">>, <<"usage", "tokA", "tokB", "done">>}

Generator(p, pulls, n, idx, t, body, tokens, late) ==
    [pc |-> p, pulls |-> pulls, requests |-> n, i |-> idx, timer |-> t,
     body |-> body, tokens |-> tokens, late |-> late]

\* async function*: a call returns the generator object, the body has not
\* started
Created_Eager == Generator("connecting", 0, 1, 0, FALSE, <<>>, <<>>, FALSE)
Created == Generator("suspended", 0, 0, 0, FALSE, <<>>, <<>>, FALSE)

GenFrame ==
    /\ UNCHANGED <<path, pc, i, calls, inflight, timer, delays, log, aborted, inner, outer,
                   events, issuedAfterAbort, abortedLive, stream, yielded, yieldedAtAbort,
                   abortPc, decoderVars, repairVars>>
    /\ UNCHANGED <<gatewayVars, pairVars, outlineVars, appVars>>

\* the caller calls generateChapterStream(...)
CallGenerator ==
    /\ Len(gens) < MaxGenerators
    /\ gens' = Append(gens, Created)
    /\ GenFrame

\* the consumer calls next() on generator g: the body starts and reaches
\* fetch, or goes on after the yield it is suspended at; a generator that
\* has ended answers done
GenPull ==
    /\ \E g \in DOMAIN gens :
         CASE gens[g].pc = "suspended" ->
                gens' = [gens EXCEPT ![g].pc = "connecting", ![g].pulls = @ + 1,
                                     ![g].requests = @ + 1]
           [] gens[g].pc = "atyield" ->
                gens' = [gens EXCEPT ![g].pc = "reading", ![g].pulls = @ + 1]
           [] gens[g].pc \in {"done", "failed"} /\ ~gens[g].late ->
                gens' = [gens EXCEPT ![g].late = TRUE, ![g].pulls = @ + 1]
           [] OTHER -> FALSE
    /\ GenFrame

\* the backend answers the connection attempt of generator g
GenConnect ==
    /\ \E g \in DOMAIN gens, resp \in GenResponses :
         /\ gens[g].pc = "connecting"
         /\ IF resp.kind = "ok"
            THEN \E body \in GenBodies :
                   gens' = [gens EXCEPT ![g].pc = "reading", ![g].body = body]
            ELSE LET err == IF resp.kind = "neterr"
                            THEN MkErr("TypeError", resp.msg, gens[g].requests)
                            ELSE StreamHttpError(resp, gens[g].requests) IN
                 IF StreamRetry(err, gens[g].i)
                 THEN gens' = [gens EXCEPT ![g].pc = "ssleep", ![g].timer = TRUE]
                 ELSE gens' = [gens EXCEPT ![g].pc = "failed"]
    /\ GenFrame

\* the timer of generator g's wait(...) fires
GenTimerFires ==
    /\ \E g \in DOMAIN gens :
         /\ gens[g].timer
         /\ gens' = [gens EXCEPT ![g].timer = FALSE]
    /\ GenFrame

\* the connection loop of generator g goes on
GenResume ==
    /\ \E g \in DOMAIN gens :
         /\ gens[g].pc = "ssleep"
         /\ ~gens[g].timer
         /\ gens' = [gens EXCEPT ![g].pc = "connecting", ![g].i = @ + 1,
                                 ![g].requests = @ + 1]
    /\ GenFrame

\* the read loop of generator g takes the next line: a token is yielded
\* and the generator is suspended until the next pull
GenRead ==
    /\ \E g \in DOMAIN gens :
         /\ gens[g].pc = "reading"
         /\ gens[g].body # <<>>
         /\ gens' = [gens EXCEPT
                       ![g].body = Tail(@),
                       ![g].tokens = IF IsToken(Head(gens[g].body))
                                     THEN Append(@, Head(gens[g].body)) ELSE @,
                       ![g].pc = IF IsToken(Head(gens[g].body)) THEN "atyield" ELSE @]
    /\ GenFrame

\* reader.read() of generator g reports done: the generator returns
GenEnd ==
    /\ \E g \in DOMAIN gens :
         /\ gens[g].pc = "reading"
         /\ gens[g].body = <<>>
         /\ gens' = [gens EXCEPT ![g].pc = "done"]
    /\ GenFrame

---------------------------------------------------------------------------
(* generateOutline after cleanAndParseJson: the one-shot handling, written *)
(* out once on each provider path. A text is a sequence of words.          *)

\* the longest parsed array, in chapters
MaxChapters == 2

NovelTypes == {"short", "long"}
ChapterCounts == {1, 3}
OutlineSettings ==
    [novelType : NovelTypes, chapterCount : ChapterCounts,
     title : {<<"T">>}, premise : {<<"P">>}, provider : {"gemini", "alibaba"}]

OutlineChapter(id, title, summary) == [id |-> id, title |-> title, summary |-> summary]
\* the chapter objects the backend may put in the array
BackendChapters ==
    {OutlineChapter(id, <<"t">>, summary) : id \in {1, 2, 5}, summary \in {<<"a">>, <<"b">>, <<>>}}

ParsedArray(items) == [isArray |-> TRUE, items |-> items]
\* a parsed value that is no array
ParsedObject == [isArray |-> FALSE, items |-> <<>>]
ParsedOutputs == {ParsedArray(items) : items \in SeqsUpTo(BackendChapters, MaxChapters)} \cup {ParsedObject}

\* settings.novelType === 'short' || settings.chapterCount === 1
IsOneShot(s) == s.novelType = "short" \/ s.chapterCount = 1

\* result.map((c: any) => c.summary).join(' -> ')
RECURSIVE JoinSummaries(_)
JoinSummaries(items) ==
    IF items = <<>> THEN <<>>
    ELSE IF Len(items) = 1 THEN items[1].summary
    ELSE items[1].summary \o <<" -> ">> \o JoinSummaries(Tail(items))

\* the one-shot block of the gemini path
OneShotSdk(s, result) ==
    IF IsOneShot(s) /\ result.isArray
    THEN IF Len(result.items) > 1
         THEN ParsedArray(<<OutlineChapter(1, s.title, JoinSummaries(result.items))>>)
         ELSE IF Len(result.items) = 1
         THEN ParsedArray(<<[result.items[1] EXCEPT !.id = 1]>>)
         ELSE ParsedArray(<<OutlineChapter(1, s.title, s.premise)>>)
    ELSE result

\* the one-shot block of the message-protocol path
OneShotFetch_IdKept(s, result) ==
    IF IsOneShot(s) /\ result.isArray
    THEN IF Len(result.items) > 1
         THEN ParsedArray(<<OutlineChapter(1, s.title, JoinSummaries(result.items))>>)
         ELSE IF Len(result.items) = 1
         THEN result
         ELSE ParsedArray(<<OutlineChapter(1, s.title, s.premise)>>)
    ELSE result
OneShotFetch(s, result) ==
    IF IsOneShot(s) /\ result.isArray
    THEN IF Len(result.items) > 1
         THEN ParsedArray(<<OutlineChapter(1, s.title, JoinSummaries(result.items))>>)
         ELSE IF Len(result.items) = 1
         THEN ParsedArray(<<[result.items[1] EXCEPT !.id = 1]>>)
         ELSE ParsedArray(<<OutlineChapter(1, s.title, s.premise)>>)
    ELSE result

NoOutline == [kind |-> "none", value |-> ParsedObject]

\* cleanAndParseJson has returned outlineIn.result: the rest of
\* generateOutline runs and returns
ReturnOutline ==
    /\ outlineOut.kind = "none"
    /\ outlineOut' =
         [kind |-> "returned",
          value |-> IF outlineIn.settings.provider = "gemini"
                    THEN OneShotSdk(outlineIn.settings, outlineIn.result)
                    ELSE OneShotFetch(outlineIn.settings, outlineIn.result)]
    /\ UNCHANGED outlineIn
    /\ UNCHANGED <<path, pc, i, calls, inflight, timer, delays, log, aborted, inner, outer,
                   events, issuedAfterAbort, abortedLive, stream, yielded, yieldedAtAbort,
                   abortPc, decoderVars, repairVars>>
    /\ UNCHANGED <<gatewayVars, pairVars, generatorVars, appVars>>

---------------------------------------------------------------------------

\* no request made yet
RequestIdle ==
    /\ pc = "idle"
    /\ i = 0
    /\ calls = 0
    /\ inflight = 0
    /\ timer = FALSE
    /\ delays = <<>>
    /\ log = <<>>
    /\ aborted = FALSE
    /\ inner = Unsettled
    /\ outer = Unsettled
    /\ events = <<>>
    /\ issuedAfterAbort = FALSE
    /\ abortedLive = FALSE
    /\ stream = <<>>
    /\ yielded = <<>>
    /\ yieldedAtAbort = -1
    /\ abortPc = "none"

\* no body being decoded
DecoderIdle ==
    /\ sse = <<>>
    /\ unread = <<>>
    /\ buffer = <<>>

\* cleanAndParseJson not called
NotParsed == [kind |-> "none", value |-> <<>>, by |-> 0, raw |-> [words |-> <<>>, cut |-> 0]]
RepairIdle ==
    /\ text = <<>>
    /\ parsed = NotParsed

\* no exported operation invoked
GatewayIdle ==
    /\ op = "generateOutline"
    /\ settings = [provider |-> "gemini", baseUrl |-> "", apiKey |-> "", modelName |-> ""]
    /\ gw = NotInvoked

\* no pair of requests
PairIdle == reqs = [r \in Pair |-> NotRequested]

\* no generator object
GeneratorIdle == gens = <<>>

\* generateOutline has nothing parsed
OutlineIdle ==
    /\ outlineIn = [settings |-> [novelType |-> "long", chapterCount |-> 3, title |-> <<"T">>,
                                  premise |-> <<"P">>, provider |-> "gemini"],
                    result |-> ParsedObject]
    /\ outlineOut = NoOutline

\* the application as mounted: useState / useRef initial values
AppIdle ==
    /\ abortControllerRef = 0
    /\ controllers = <<>>
    /\ runs = <<>>
    /\ chapters = <<>>
    /\ currentChapterId = 0
    /\ appStatus = "idle"

RestIdle ==
    /\ GatewayIdle
    /\ PairIdle
    /\ GeneratorIdle
    /\ OutlineIdle
    /\ AppIdle

Init ==
    /\ path \in {"sdk", "fetch", "stream"}
    /\ RequestIdle
    /\ DecoderIdle
    /\ RepairIdle
    /\ RestIdle

Next ==
    \/ Start
    \/ Settle
    \/ TimerFires
    \/ Resume
    \/ AbortOneShot
    \/ StreamStart
    \/ StreamConnect
    \/ StreamResume
    \/ StreamRead
    \/ StreamEnd
    \/ AbortStream

Spec == Init /\ [][Next]_vars

\* The stream is open: the first connection attempt was answered 200 with
\* the body sse
DecoderInit ==
    /\ path = "stream"
    /\ pc = "reading"
    /\ i = 0
    /\ calls = 1
    /\ inflight = 0
    /\ timer = FALSE
    /\ delays = <<>>
    /\ log = <<Resp("ok", 200, {}, {}, "", FALSE)>>
    /\ aborted = FALSE
    /\ inner = Unsettled
    /\ outer = Unsettled
    /\ events = <<>>
    /\ issuedAfterAbort = FALSE
    /\ abortedLive = FALSE
    /\ stream = <<>>
    /\ yielded = <<>>
    /\ yieldedAtAbort = -1
    /\ abortPc = "none"
    /\ sse \in SseBodies
    /\ unread = sse
    /\ buffer = <<>>
    /\ RepairIdle
    /\ RestIdle

DecoderNext ==
    \/ DecoderRead
    \/ DecoderEnd

DecoderSpec == DecoderInit /\ [][DecoderNext]_vars

\* The model has answered with text: cleanAndParseJson is about to be
\* applied to it
RepairInit ==
    /\ path = "fetch"
    /\ RequestIdle
    /\ DecoderIdle
    /\ text \in RepairInputs
    /\ parsed = NotParsed
    /\ RestIdle

RepairNext == Parse

RepairSpec == RepairInit /\ [][RepairNext]_vars

\* An exported operation is about to be called with some settings
GatewayInit ==
    /\ path = "fetch"
    /\ RequestIdle
    /\ DecoderIdle
    /\ RepairIdle
    /\ op \in ExportedOps
    /\ settings \in SettingsSet
    /\ gw = NotInvoked
    /\ PairIdle
    /\ GeneratorIdle
    /\ OutlineIdle
    /\ AppIdle

GatewayNext ==
    \/ CallOperation
    \/ FirstPull
    \/ RequestEnds

GatewaySpec == GatewayInit /\ [][GatewayNext]_vars

\* Two requests are about to be started
PairInit ==
    /\ path = "fetch"
    /\ RequestIdle
    /\ DecoderIdle
    /\ RepairIdle
    /\ RestIdle

PairNext ==
    \/ PairStart
    \/ PairSettle
    \/ PairTimerFires
    \/ PairResume

PairSpec == PairInit /\ [][PairNext]_vars

\* No generator function has been called yet
GeneratorInit ==
    /\ path = "stream"
    /\ RequestIdle
    /\ DecoderIdle
    /\ RepairIdle
    /\ RestIdle

GeneratorNext ==
    \/ CallGenerator
    \/ GenPull
    \/ GenConnect
    \/ GenTimerFires
    \/ GenResume
    \/ GenRead
    \/ GenEnd

GeneratorSpec == GeneratorInit /\ [][GeneratorNext]_vars

\* cleanAndParseJson has returned inside generateOutline
OutlineInit ==
    /\ path = "fetch"
    /\ RequestIdle
    /\ DecoderIdle
    /\ RepairIdle
    /\ GatewayIdle
    /\ PairIdle
    /\ GeneratorIdle
    /\ outlineIn \in [settings : OutlineSettings, result : ParsedOutputs]
    /\ outlineOut = NoOutline
    /\ AppIdle

OutlineNext == ReturnOutline

OutlineSpec == OutlineInit /\ [][OutlineNext]_vars

\* The application is mounted
AppInit ==
    /\ path = "stream"
    /\ RequestIdle
    /\ DecoderIdle
    /\ RepairIdle
    /\ RestIdle

AppNext ==
    \/ GenerateOutlineAndCharacters
    \/ OutlineSettles
    \/ HandleStopGeneration
    \/ SelectChapter
    \/ GenerateChapterContent
    \/ ChapterSettles

AppSpec == AppInit /\ [][AppNext]_vars

---------------------------------------------------------------------------
(* Claims *)

AttemptErr(k) == Operation(log[k], k).err
AttemptFailed(k) == Operation(log[k], k).kind = "err"

\* the error is a safety block or a cancellation, by what it carries
SafetyOrCancel(err) ==
    \/ err.name = "AbortError"
    \/ AbortMarker \in err.msg
    \/ err.msg \cap SafetyMarkers # {}
    \/ "Content blocked by" \in err.msg

\* C1: an attempt of withRetry that fails with a safety-block error or a
\* cancellation is the last one and its error is rethrown, whatever
\* retryable markers the message also carries; when it is the first
\* attempt, the operation has been invoked exactly once in total.
C1_TerminalErrorNeverRetried ==
    OneShot =>
        \A k \in 1..Len(log) :
            (AttemptFailed(k) /\ SafetyOrCancel(AttemptErr(k))) =>
                /\ calls = k
                /\ Len(delays) = k - 1
                /\ pc = "done"
                /\ inner.kind = "err"
                /\ inner.err = AttemptErr(k)

C1_Witness ==
    /\ path = "sdk"
    /\ Len(log) = 1
    /\ log[1].msg = {AbortMarker, "429"}
    /\ calls = 1
    /\ inner.kind = "err"

\* C2: withRetry with cap 3 and base delay 2000 invokes the operation at
\* most 3 times; the k-th delay slept (after failed attempt k-1, 0-based)
\* is 2000 * 2^(k-1), that is 2000 then 4000, and delays never decrease.
C2_BoundedAttemptsExponentialDelays ==
    OneShot =>
        /\ calls <= 3
        /\ Len(delays) <= 2
        /\ \A k \in 1..Len(delays) : delays[k] = 2000 * 2^(k - 1)
        /\ \A k \in 1..Len(delays) : \A j \in 1..k : delays[j] <= delays[k]
        /\ delays \in {<<>>, <<2000>>, <<2000, 4000>>}

C2_Witness ==
    /\ OneShot
    /\ calls = 3
    /\ delays = <<2000, 4000>>
    /\ pc = "done"

\* a failure that is retryable and nothing else: HTTP 429, 500 or 503 with
\* a plain body, a network failure, or an SDK error with retryable markers
PlainRetryable(resp) ==
    \/ resp.kind = "neterr"
    \/ resp.kind = "http" /\ resp.status \in {429, 500, 503} /\ resp.txt = {}
    \/ /\ resp.kind = "sdkerr"
       /\ resp.msg # {}
       /\ resp.msg \subseteq RateLimitMarkers \cup ServerMarkers \cup NetworkMarkers

\* C3: when the first k-1 attempts (k <= 3) fail with a retryable failure
\* such as HTTP 500 and attempt k succeeds, withRetry returns the payload of
\* attempt k after exactly k calls; while fewer than 3 attempts have failed
\* that way no error is surfaced.
C3_SuccessAfterRetryableFailures ==
    OneShot =>
        /\ \A k \in 1..Len(log) :
              (/\ \A j \in 1..(k - 1) : PlainRetryable(log[j])
               /\ log[k].kind = "ok")
              => /\ k <= 3
                 /\ Len(log) = k
                 /\ calls = k
                 /\ inner.kind = "ok"
                 /\ inner.content = log[k].content
                 /\ (path = "fetch" => outer = Facade(inner))
        /\ ((\A j \in 1..Len(log) : PlainRetryable(log[j])) /\ Len(log) < 3)
              => inner.kind = "none"

C3_Witness ==
    /\ path = "fetch"
    /\ Len(log) = 3
    /\ log[1].status = 500
    /\ log[2].status = 500
    /\ log[3].kind = "ok"
    /\ log[3].content = "json"
    /\ calls = 3
    /\ outer.kind = "ok"

\* an attempt failing with a rate-limit error: HTTP 429 whose body carries
\* no safety or cancellation text, or an SDK error carrying 429
RateLimited(resp) ==
    \/ /\ resp.kind = "http"
       /\ resp.status = 429
       /\ resp.txt \cap (SafetyMarkers \cup {AbortMarker}) = {}
    \/ resp.kind = "sdkerr" /\ resp.msg = {"429"}

\* C4: when every attempt fails with HTTP 429, no result is ever returned,
\* nothing is surfaced before the third call, and the request ends after
\* exactly 3 calls with the error of the third attempt.
C4_RateLimitExhaustsBudget ==
    (OneShot /\ \A j \in 1..Len(log) : RateLimited(log[j])) =>
        /\ inner.kind # "ok"
        /\ calls <= 3
        /\ Len(log) < 3 => (inner.kind = "none" /\ pc # "done")
        /\ pc = "done" =>
              /\ calls = 3
              /\ Len(log) = 3
              /\ inner.kind = "err"
              /\ inner.err = AttemptErr(3)
              /\ inner.err.attempt = 3
              /\ "429" \in inner.err.msg
              /\ (path = "fetch" =>
                    /\ outer = Facade(inner)
                    /\ events = <<Ev("error", "", inner.err)>>)

C4_Witness ==
    /\ path = "fetch"
    /\ Len(log) = 3
    /\ \A j \in 1..3 : log[j].kind = "http" /\ log[j].status = 429
    /\ pc = "done"
    /\ outer.kind = "err"
    /\ outer.err.attempt = 3

\* a message-protocol response that is not OK, not 429 and below 500
ClientError(resp) == resp.kind = "http" /\ resp.status # 429 /\ resp.status < 500

\* C5 as stated: a non-OK HTTP status other than 429 and below 500 is
\* rethrown at once whatever the body holds: one call, no backoff sleep.
C5_ClientErrorNeverRetried ==
    (path = "fetch" /\ Len(log) >= 1 /\ ClientError(log[1])) =>
        /\ calls = 1
        /\ delays = <<>>
        /\ inner.kind = "err"
        /\ inner.err = AttemptErr(1)

\* C5 amended: such a response is rethrown at once provided the message
\* extracted from its body holds no retryable marker; as the first attempt
\* it leaves exactly one call and no backoff sleep.
C5_ClientErrorWithoutMarkerNeverRetried ==
    path = "fetch" =>
        \A k \in 1..Len(log) :
            (ClientError(log[k]) /\ ~IsRetryable(log[k].msg)) =>
                /\ calls = k
                /\ Len(delays) = k - 1
                /\ pc = "done"
                /\ inner.kind = "err"
                /\ inner.err = AttemptErr(k)
                /\ (k = 1 => calls = 1 /\ delays = <<>>)

C5_Witness ==
    /\ path = "fetch"
    /\ Len(log) = 1
    /\ log[1].kind = "http"
    /\ log[1].status = 400
    /\ log[1].txt = {}
    /\ calls = 1
    /\ delays = <<>>
    /\ outer.kind = "err"

\* C6: a request has at most one backend call in flight; every invoked
\* attempt is either settled or the one in flight; an attempt after the
\* first is in flight only when every earlier attempt has settled with a
\* failure and every backoff sleep started so far has finished.
C6_AttemptsAreSequential ==
    /\ inflight \in {0, 1}
    /\ calls = Len(log) + inflight
    /\ inflight = 1 =>
          /\ pc \in {"inflight", "connecting"}
          /\ ~timer
          /\ Len(delays) = calls - 1
          /\ \A k \in 1..Len(log) : log[k].kind # "ok"
    /\ pc \in {"sleep", "ssleep"} => inflight = 0

C6_Witness ==
    /\ calls = 2
    /\ inflight = 1
    /\ Len(log) = 1
    /\ delays = <<2000>>

Cancelled(o) == o.kind = "err" /\ o.err.name = "AbortError"
IsTerminalEv(e) == e.type \in {"result", "error"}

C7_Outcome ==
    OneShot =>
        \* triggered while not terminal: the outcome is Cancelled
        /\ (abortedLive /\ outer.kind # "none") => Cancelled(outer)
        \* the terminal event is delivered once and is the last event
        /\ outer.kind = "none" => \A k \in 1..Len(events) : ~IsTerminalEv(events[k])
        /\ outer.kind # "none" =>
              /\ events # <<>>
              /\ \A k \in 1..Len(events) : IsTerminalEv(events[k]) <=> k = Len(events)
              /\ events[Len(events)] =
                    IF outer.kind = "ok" THEN Ev("result", outer.content, NoErr)
                                         ELSE Ev("error", "", outer.err)

C7_Step ==
    (OneShot /\ outer.kind # "none") => (outer' = outer /\ events' = events)

\* C7: once the signal of a one-shot request is triggered while the request
\* is not terminal, the outcome the caller gets is the AbortError; a result
\* or error of the attempt that settles later is not delivered; after the
\* terminal outcome no event (usage, result, error) is delivered and a later
\* trigger leaves the outcome as it is.
C7_CancellationSupersedes == []C7_Outcome /\ [][C7_Step]_vars

C7_Witness ==
    /\ path = "sdk"
    /\ abortedLive
    /\ inner.kind = "ok"
    /\ inner.usage
    /\ Cancelled(outer)
    /\ Len(events) = 1

\* C8 as stated: once the signal of a started request has been triggered no
\* further backend call is issued for it, on either provider path.
C8_NoCallAfterAbort ==
    (OneShot /\ abortPc \notin {"none", "idle"}) => ~issuedAfterAbort

\* C9 as stated: a signal triggered during a backoff sleep ends the sleep
\* at once: the retrier has terminated with the cancellation, no timer is
\* left pending and no further attempt has been invoked.
C9_AbortEndsBackoffSleep ==
    (OneShot /\ abortPc = "sleep") =>
        /\ pc = "done"
        /\ ~timer
        /\ calls = Len(delays)
        /\ Cancelled(inner)

\* C10 as stated: a stream whose signal is triggered after n tokens ends
\* with exactly those n tokens and without an error.
C10_StreamStopsAtAbort ==
    (Streaming /\ yieldedAtAbort >= 0) =>
        /\ Len(yielded) = yieldedAtAbort
        /\ outer.kind # "err"

\* a failure the classifier of the specification calls transient and
\* nothing else: HTTP 429, HTTP 500 or 503, each with a plain body
PlainTransient(resp) ==
    resp.kind = "http" /\ resp.status \in {429, 500, 503} /\ resp.txt = {}

\* C11 as stated, for the streaming operation: a 429 or 5xx response to an
\* attempt to open the stream is retried while attempts remain, so it fails
\* the streaming request only as the third attempt; in particular a single
\* such response does not fail it.
C11_StreamOpenRetriesTransient ==
    Streaming =>
        \A k \in 1..Len(log) :
            (PlainTransient(log[k]) /\ k < 3) =>
                ~(outer.kind = "err" /\ outer.err.attempt = k)

\* a message-protocol response with an HTTP status of 500 or more and a
\* plain body
ServerFailure(resp) == resp.kind = "http" /\ resp.status >= 500 /\ resp.txt = {}

\* C12 as stated: an attempt failing with any HTTP status >= 500 (or with
\* 429) is retried while attempts remain: as attempt 1 or 2 it never ends
\* the request.
C12_EveryServerStatusRetried ==
    path = "fetch" =>
        \A k \in 1..Len(log) :
            ((ServerFailure(log[k]) \/ RateLimited(log[k])) /\ k < 3) =>
                ~(inner.kind = "err" /\ inner.err.attempt = k)

---------------------------------------------------------------------------
(* Claims on the chunk decoder, under DecoderSpec *)

\* the lines of the whole body, the last one being what follows the last
\* line feed
BodyLines == Split(sse)
\* the lines completed by what has been read so far
LinesRead ==
    LET got == Split(SubSeq(sse, 1, Len(sse) - Len(unread))) IN
    SubSeq(got, 1, Len(got) - 1)

\* a well-formed record and the content or usage it carries
RecordContent(line) ==
    IF line = RecordLine("a") THEN <<"a">>
    ELSE IF line = RecordLine("b") THEN <<"b">>
    ELSE <<>>
RecordUsage(line) == IF line = RecordLine("u") THEN <<UsageEv>> ELSE <<>>
ContentsOf(lines) == Flatten([k \in 1..Len(lines) |-> RecordContent(lines[k])])
UsagesOf(lines) == Flatten([k \in 1..Len(lines) |-> RecordUsage(lines[k])])

\* C13 as stated: when the stream has ended, the yielded tokens are the
\* delta contents of all records of the body in arrival order, whatever
\* the chunks were, a last record that no line feed follows included.
C13_TokensAreAllContents ==
    pc = "done" => yielded = ContentsOf(BodyLines)

\* C14 as stated: the sentinel is never yielded, and once the body holds a
\* data: [DONE] line nothing of a record after it is delivered: the tokens
\* and usage calls are at most those of the records before it.
C14_StopsAtSentinel ==
    /\ \A k \in 1..Len(yielded) : yielded[k] # "[DONE]"
    /\ \A k \in 1..Len(BodyLines) :
          BodyLines[k] = SentinelLine =>
             /\ Len(yielded) <= Len(ContentsOf(SubSeq(BodyLines, 1, k - 1)))
             /\ Len(events) <= Len(UsagesOf(SubSeq(BodyLines, 1, k - 1)))

\* C15: a complete line that does not start with 'data: ' or whose payload
\* does not parse delivers nothing and neither ends nor fails the stream:
\* as long as no sentinel was read, the yielded tokens and the usage calls
\* are exactly those of the well-formed records among the lines read, the
\* ones after a skipped line included, and the stream ends only when the
\* body is exhausted, without an error.
C15_MalformedLinesSkipped ==
    /\ (\A k \in 1..Len(LinesRead) : LinesRead[k] # SentinelLine) =>
          /\ yielded = ContentsOf(LinesRead)
          /\ events = UsagesOf(LinesRead)
    /\ pc = "done" => (unread = <<>> /\ outer.kind = "ok")
    /\ outer.kind # "err"

C15_Witness ==
    /\ pc = "done"
    /\ BodyLines = <<TruncatedLine, RecordLine("b"), BlankLine>>
    /\ yielded = <<"b">>
    /\ outer.kind = "ok"

---------------------------------------------------------------------------
(* Claims on cleanAndParseJson, under RepairSpec *)

Called == parsed.kind # "none"

\* C16 as stated: for every valid JSON array or object J of the payloads,
\* objects holding arrays and strings holding brackets included,
\* cleanAndParseJson of J inside a markdown fence between leading and
\* trailing prose returns the value of parsing J.
C16_FencedPayloadRoundTrip ==
    \A J \in Arrays \cup Objects :
        (Called /\ text = Wrap("prosefence", J) /\ IsJson(J)) =>
            /\ parsed.kind = "ok"
            /\ parsed.value = JsonParse(J)

\* C17 as stated, for arrays and objects: for every text that is a valid
\* JSON array or object already, cleanAndParseJson returns the value of
\* parsing the text, string values that hold a fence included.
C17_ValidJsonUnchanged ==
    (Called /\ text \in Arrays \cup Objects /\ IsJson(text)) =>
        /\ parsed.kind = "ok"
        /\ parsed.value = JsonParse(text)

\* C18: cleanAndParseJson of the empty text returns the empty array and
\* throws nothing.
C18_EmptyTextGivesEmptyArray ==
    (Called /\ text = <<>>) =>
        /\ parsed.kind = "ok"
        /\ parsed.value = <<"[", "]">>

C18_Witness ==
    /\ text = <<>>
    /\ parsed.kind = "ok"
    /\ parsed.value = <<"[", "]">>
    /\ parsed.by = 0

\* C19 as stated: for prose, then an array of one object whose tracked
\* field name holds the bare word Alice and whose field role holds any
\* value without a fence, then prose, cleanAndParseJson returns the array
\* with name as the string "Alice" and role as it was written.
C19_UnquotedValueRepaired ==
    \A sep \in Separators, v \in RoleValues \ {Str(Fence)} :
        (Called /\ text = Wrap("prose", ArrayOf(<<Character(sep, <<"Alice">>, v)>>, sep))) =>
            /\ parsed.kind = "ok"
            /\ parsed.value = JsonParse(ArrayOf(<<Character(sep, Str("Alice"), v)>>, sep))

IsPrefix(p, str) == Len(p) <= Len(str) /\ SubSeq(str, 1, Len(p)) = p

\* C20 as stated: when cleanAndParseJson throws, no text any strategy
\* hands to the parser is parseable, and the error carries the first
\* min(50, length) characters of the raw text.
C20_ErrorOnlyWhenNothingParses ==
    (Called /\ parsed.kind = "err") =>
        /\ \A k \in 1..Len(Attempts(StripFences(text))) :
              ~IsJson(Attempts(StripFences(text))[k])
        /\ IsPrefix(parsed.raw.words, text)
        /\ CharLen(parsed.raw.words) + parsed.raw.cut <= 50
        /\ CharLen(parsed.raw.words) + parsed.raw.cut =
              IF CharLen(text) < 50 THEN CharLen(text) ELSE 50


\* the texts of the four strategies in the order of the specification:
\* whole text, whole text repaired, outermost [...] span (raw, then
\* repaired), outermost {...} span (raw, then repaired)
StrategyTexts ==
    LET clean == StripFences(text) IN
    <<clean, FixUnquoted(clean)>>
    \o Span(clean, "[", "]")
    \o Span(clean, "{", "}")

\* C21: when cleanAndParseJson returns a value for a text that is not
\* empty, that value is the parse of the first text, in the order whole
\* text, repaired whole text, [...] span, {...} span, that parses: no
\* earlier text parses, and a later one that parses too does not replace it.
C21_FirstStrategyWins ==
    (Called /\ parsed.kind = "ok" /\ text # <<>>) =>
        /\ parsed.by \in 1..Len(StrategyTexts)
        /\ \A j \in 1..(parsed.by - 1) : ~IsJson(StrategyTexts[j])
        /\ IsJson(StrategyTexts[parsed.by])
        /\ parsed.value = JsonParse(StrategyTexts[parsed.by])

\* the [...] span inside an object wins over the {...} span, which parses too
C21_Witness ==
    /\ text = Wrap("prose", Character(<<>>, <<"7">>, <<"[", "7", "]">>))
    /\ parsed.kind = "ok"
    /\ parsed.by = 3
    /\ parsed.value = <<"[", "7", "]">>
    /\ IsJson(StrategyTexts[5])


---------------------------------------------------------------------------
(* Further claims on the one-shot request, under Spec *)

UsageCalls == Len(SelectSeq(events, LAMBDA e : e.type = "usage"))

\* C26: in a one-shot message-protocol request the usage callback runs at
\* most once, and only for the attempt whose response is returned: while
\* attempts fail and are retried no usage has been reported, a request
\* that ends in a failure has reported none, and a reported usage is that
\* of the last, successful attempt.
C26_UsageOnlyFromReturnedAttempt ==
    path = "fetch" =>
        /\ UsageCalls <= 1
        /\ pc # "done" => UsageCalls = 0
        /\ inner.kind = "err" => UsageCalls = 0
        /\ UsageCalls = 1 =>
              /\ inner.kind = "ok"
              /\ log[Len(log)].kind = "ok"
              /\ log[Len(log)].usage
              /\ \A k \in 1..(Len(log) - 1) : log[k].kind # "ok"
        /\ (inner.kind = "ok" /\ inner.usage) => UsageCalls = 1

C26_Witness ==
    /\ path = "fetch"
    /\ Len(log) = 3
    /\ log[1].status = 500
    /\ log[2].status = 429
    /\ log[3].kind = "ok"
    /\ log[3].usage
    /\ UsageCalls = 1
    /\ events[1] = UsageEv


---------------------------------------------------------------------------
(* Further claims on the chunk decoder, under DecoderSpec *)

\* what has been read so far, whatever the chunks were
ReadSoFar == SubSeq(sse, 1, Len(sse) - Len(unread))

\* C27: the tokens yielded and the usage calls made depend on the
\* characters read so far and not on the chunks they came in: they are
\* those of the lines completed so far, and the buffer is the rest after
\* the last line feed; so a body of lines each ended by a line feed gives
\* the tokens and usage calls of all its lines under every chunking.
C27_ChunkBoundariesDoNotMatter ==
    /\ yielded = Flatten([k \in 1..Len(LinesRead) |-> SelectSeq(ProcessLine(LinesRead[k]), LAMBDA e : e # "u")])
    /\ Len(events) = Len(SelectSeq(Flatten([k \in 1..Len(LinesRead) |-> ProcessLine(LinesRead[k])]), LAMBDA e : e = "u"))
    /\ buffer = Split(ReadSoFar)[Len(Split(ReadSoFar))]
    /\ (pc = "done" /\ BodyLines[Len(BodyLines)] = <<>>) =>
          /\ yielded = ContentsOf(BodyLines)
          /\ events = UsagesOf(BodyLines)

\* the first line was decoded and the last chunk ended inside the
\* 'data: ' prefix of the second line
C27_Witness ==
    /\ BodyLines = <<RecordLine("u"), RecordLine("b"), <<>>>>
    /\ pc = "reading"
    /\ buffer = <<"data:">>
    /\ unread = <<Space, "{", "b", "}", NewLine>>
    /\ yielded = <<>>
    /\ events = <<UsageEv>>


---------------------------------------------------------------------------
(* Claims on the exported operations, under GatewaySpec *)

\* the operation has run past its configuration check
Checked == gw.pc \in {"awaiting", "done"}

\* C22: an exported operation invoked with a message-protocol provider
\* whose endpoint, credential or model name is absent after the defaults
\* fails with a configuration error, having made no network call at all.
C22_MissingConfigFails ==
    (settings.provider \in MessageProviders /\ ConfigMissing(settings) /\ Checked) =>
        /\ gw.pc = "done"
        /\ gw.result = Settled("err", MissingConfigError, "", FALSE)
        /\ gw.requests = 0

\* the invocation ended in one of the failures: the configuration check
\* failed, or the awaited request or the parse of its answer threw
TerminalFailure ==
    /\ gw.pc = "done"
    /\ \/ settings.provider \in MessageProviders /\ ConfigMissing(settings)
       \/ gw.last.kind = "err"

\* C23: a terminal failure of an exported operation (configuration error,
\* safety block, cancellation, unparsable output, transient failure after
\* the last retry) reaches the caller as an error, never as a return value.
C23_FailuresPropagate ==
    TerminalFailure =>
        /\ gw.result.kind = "err"
        /\ gw.last.kind = "err" => gw.result = gw.last


---------------------------------------------------------------------------
(* Claims on the generator objects, under GeneratorSpec *)

Ended(gen) == gen.pc \in {"done", "failed"}

\* C24: a streaming completion is lazy and not restartable. A generator
\* that was never pulled has issued no request and yielded nothing; one
\* that was pulled has issued its own request; a step of one generator,
\* and a new call of the generator function, leave every other generator
\* as it was; a generator that has ended stays ended, with the tokens and
\* the requests it had, whatever is pulled from it.
C24_LazyIndependentNotRestartable ==
    [][\A g \in DOMAIN gens' :
         /\ gens'[g].pulls = 0 =>
               /\ gens'[g].pc = "suspended"
               /\ gens'[g].requests = 0
               /\ gens'[g].tokens = <<>>
         /\ gens'[g].pulls > 0 => gens'[g].requests >= 1
         /\ gens'[g].requests <= StreamRetries
         /\ g \in DOMAIN gens =>
               /\ gens'[g] # gens[g] => \A h \in DOMAIN gens \ {g} : gens'[h] = gens[h]
               /\ Len(gens') > Len(gens) => gens'[g] = gens[g]
               /\ Ended(gens[g]) =>
                     /\ gens'[g].pc = gens[g].pc
                     /\ gens'[g].tokens = gens[g].tokens
                     /\ gens'[g].requests = gens[g].requests
      ]_vars

\* the first generator has ended after two tokens and one request and was
\* pulled once more; the second, called later, is at its first token after
\* a connection attempt of its own that failed and one that succeeded
C24_Witness ==
    /\ Len(gens) = 2
    /\ gens[1].pc = "done"
    /\ gens[1].late
    /\ gens[1].tokens = <<"tokA", "tokB">>
    /\ gens[1].requests = 1
    /\ gens[2].pc = "atyield"
    /\ gens[2].tokens = <<"tokA">>
    /\ gens[2].requests = 2


---------------------------------------------------------------------------
(* Claims on two concurrent requests, under PairSpec *)

\* request rq has ended with a failure that is retried while attempts remain
EndedTransient(rq) ==
    /\ rq.pc = "done"
    /\ rq.out.kind = "err"
    /\ ~IsTerminal(rq.out.err)
    /\ IsRetryable(rq.out.err.msg)

\* C25: two requests running at once are independent. Each makes at most
\* Retries calls and counts its own attempts: its loop index is the number
\* of its own backoffs, its delays are those of its own indexes, and a
\* transient failure ends it only at its own last attempt. A step of one
\* leaves the other as it was, and while one sleeps in backoff the other
\* can be dispatched, be answered and go on.
C25_ConcurrentRequestsIndependent ==
    [][\A r \in Pair :
         /\ reqs'[r].calls <= Retries
         /\ reqs'[r].pc # "idle" => reqs'[r].calls = reqs'[r].i + 1
         /\ Len(reqs'[r].delays) = reqs'[r].i + (IF reqs'[r].pc = "sleep" THEN 1 ELSE 0)
         /\ reqs'[r].delays = [k \in 1..Len(reqs'[r].delays) |-> Delay(k - 1)]
         /\ EndedTransient(reqs'[r]) => reqs'[r].calls = Retries
         /\ reqs'[r] # reqs[r] => reqs'[Other(r)] = reqs[Other(r)]
         /\ (reqs[r].pc = "sleep" /\ reqs[r].timer) =>
               /\ reqs[Other(r)].pc = "idle" => ENABLED PairStartOf(Other(r))
               /\ reqs[Other(r)].pc = "inflight" => ENABLED PairSettleOf(Other(r))
               /\ (reqs[Other(r)].pc = "sleep" /\ ~reqs[Other(r)].timer) =>
                     ENABLED PairResumeOf(Other(r))
      ]_vars

\* request 1 is asleep in its second backoff with its timer pending, and
\* request 2, which failed once and slept, got its answer at its second call
C25_Witness ==
    /\ reqs[1].pc = "sleep"
    /\ reqs[1].timer
    /\ reqs[1].calls = 2
    /\ reqs[1].delays = <<2000, 4000>>
    /\ reqs[2].pc = "done"
    /\ reqs[2].out.kind = "ok"
    /\ reqs[2].calls = 2
    /\ reqs[2].delays = <<2000>>


---------------------------------------------------------------------------
(* Claims on the one-shot outline, under OutlineSpec *)

OutlineReturned == outlineOut.kind = "returned"

\* C28: when the novel is one-shot and the parsed output is an array of
\* chapter objects, generateOutline returns exactly one chapter with id 1
\* on both provider paths: several chapters become one chapter with the
\* title of the novel and their summaries joined in order, a single
\* chapter is returned with its id set to 1 and nothing else changed, and
\* an empty array becomes one chapter of the title and the premise.
C28_OneShotGivesOneChapter ==
    (OutlineReturned /\ IsOneShot(outlineIn.settings) /\ outlineIn.result.isArray) =>
        LET given == outlineIn.result.items
            got == outlineOut.value.items IN
        /\ outlineOut.value.isArray
        /\ Len(got) = 1
        /\ got[1].id = 1
        /\ Len(given) > 1 =>
              /\ got[1].title = outlineIn.settings.title
              /\ got[1].summary = JoinSummaries(given)
        /\ Len(given) = 1 =>
              /\ got[1].title = given[1].title
              /\ got[1].summary = given[1].summary
        /\ Len(given) = 0 =>
              /\ got[1].title = outlineIn.settings.title
              /\ got[1].summary = outlineIn.settings.premise

\* on the message-protocol path a long novel of one chapter got two
\* chapters back and they were merged, the second summary after the first
C28_Witness ==
    /\ OutlineReturned
    /\ outlineIn.settings.provider = "alibaba"
    /\ outlineIn.settings.novelType = "long"
    /\ outlineIn.settings.chapterCount = 1
    /\ outlineIn.result = ParsedArray(<<OutlineChapter(2, <<"t">>, <<"b">>),
                                        OutlineChapter(5, <<"t">>, <<"a">>)>>)
    /\ outlineOut.value = ParsedArray(<<OutlineChapter(1, <<"T">>, <<"b", " -> ", "a">>)>>)


---------------------------------------------------------------------------
(* Claims on the application, under AppSpec *)

\* the generations in flight: started, not settled, and not cancelled
\* through their controller
InFlight == {k \in DOMAIN runs : runs[k].pc = "running" /\ ~controllers[runs[k].controller]}

\* the most recently started of them
Latest == CHOOSE k \in InFlight : \A h \in InFlight : h <= k

\* C29: whenever a generation is in flight, abortControllerRef holds the
\* controller of the most recently started one, so that handleStopGeneration
\* aborts it, also after an earlier generation that was still in flight
\* when it started has run its catch and finally blocks.
C29_RefHoldsLatestController ==
    InFlight # {} => abortControllerRef = runs[Latest].controller

\* the call generateChapterContent(false) finds the current chapter done
\* or generating
NoForceOnBusyChapter ==
    /\ currentChapterId \in DOMAIN chapters
    /\ chapters[currentChapterId].isDone \/ chapters[currentChapterId].isGenerating
    /\ \E confirmed \in BOOLEAN : GenerateChapterContentOf(FALSE, confirmed)

\* C30: generateChapterContent without force on a chapter that is done or
\* generating is a no-op: no generation is started, no chapter changes,
\* and the controller in abortControllerRef and every controller's signal
\* stay as they were.
C30_NoForceOnBusyIsNoOp ==
    [][NoForceOnBusyChapter =>
          /\ runs' = runs
          /\ chapters' = chapters
          /\ abortControllerRef' = abortControllerRef
          /\ \A c \in DOMAIN controllers : controllers'[c] = controllers[c]
      ]_vars

===========================================================================
